---- MODULE Spec2Model ----
(***************************************************************************)
(* Model of the Figma design analysis of src/server/figmaApi.ts:           *)
(* analyzeFigmaComponents walks the document tree (traverseFigmaNodes),    *)
(* classifies every component candidate (isComponentCandidate,             *)
(* detectComponentType), and returns the flat component list with its      *)
(* statistics.                                                             *)
(*                                                                         *)
(* A Figma node is a record; an optional field of the JSON object is a     *)
(* field that the record has or lacks.  Strings are TLA+ strings, and the  *)
(* string functions of the code (toLowerCase, includes) are computed       *)
(* character by character.                                                 *)
(***************************************************************************)
EXTENDS Integers, Sequences, FiniteSets, TLC

VARIABLES
    figmaData,    \* the argument of analyzeFigmaComponents
    pc,           \* position of the call: "idle", "traverse", "done"
    components,   \* the local array `components` of analyzeFigmaComponents
    frameCount,   \* the local `frameCount` of analyzeFigmaComponents
    stack,        \* activations of traverseFigmaNodes, innermost last
    result,       \* the value the call resolved to or the error it threw, or NoResult
    tree,         \* the document object of figmaData as the call has left it
    others,       \* the other requests in flight, by request number: what each
                  \* handler holds across its awaits
    running,      \* the number of the request whose handler is running
    client        \* the browser side: the state of ConversionProvider and of the
                  \* mounted step component, and the handler runs awaiting a response

vars == <<figmaData, pc, components, frameCount, stack, result, tree, others, running, client>>

-----------------------------------------------------------------------------
(* Bounds of the model *)

\* largest number of nodes below the document node of a generated tree
MaxNodes == 3

\* number of requests in flight together
MaxRequests == 3

-----------------------------------------------------------------------------
(* JavaScript values *)

undefined == "<undefined>"
null == "<null>"
NoResult == [none |-> TRUE]

Has(obj, key) == key \in DOMAIN obj

\* the value of obj.key, undefined when the object has no such key
Get(obj, key) == IF Has(obj, key) THEN obj[key] ELSE undefined

\* the key with its value as it is serialised: a key whose value is
\* undefined is left out of the JSON object
Field(key, value) == IF value = undefined THEN <<>> ELSE (key :> value)

\* the JSON null in an array-valued key
nullArray == <<null>>

\* a string that is neither undefined, null nor empty
truthyString(v) == v # undefined /\ v # null /\ v # ""

UpperCaseLetters == "ABCDEFGHIJKLMNOPQRSTUVWXYZ"
LowerCaseLetters == "abcdefghijklmnopqrstuvwxyz"

\* the lower-case letter of every upper-case letter
LowerOf ==
    [c \in {SubSeq(UpperCaseLetters, i, i) : i \in 1..Len(UpperCaseLetters)} |->
        LET i == CHOOSE j \in 1..Len(UpperCaseLetters) : SubSeq(UpperCaseLetters, j, j) = c
        IN  SubSeq(LowerCaseLetters, i, i)]

lowerChar(c) == IF c \in DOMAIN LowerOf THEN LowerOf[c] ELSE c

RECURSIVE toLowerCase(_)
toLowerCase(s) ==
    IF Len(s) = 0 THEN ""
    ELSE lowerChar(SubSeq(s, 1, 1)) \o toLowerCase(SubSeq(s, 2, Len(s)))

\* String.prototype.includes
includes(s, k) ==
    \E i \in 1..(Len(s) - Len(k) + 1) : SubSeq(s, i, i + Len(k) - 1) = k

\* Array.prototype.includes
arrayIncludes(arr, x) == \E i \in 1..Len(arr) : arr[i] = x

\* x.visible !== false
isVisible(x) == ~(Has(x, "visible") /\ x.visible = FALSE)

\* Array.prototype.some
some(arr, P(_)) == \E i \in 1..Len(arr) : P(arr[i])

\* Array.prototype.every
every(arr, P(_)) == \A i \in 1..Len(arr) : P(arr[i])

\* Array.prototype.findIndex, counted from 1; 0 when no element matches
findIndex(arr, P(_)) ==
    LET hit == {i \in 1..Len(arr) : P(arr[i])}
    IN  IF hit = {} THEN 0 ELSE CHOOSE i \in hit : \A j \in hit : i <= j

\* Array.prototype.filter
RECURSIVE filterFrom(_, _, _)
filterFrom(arr, keep, i) ==
    IF i > Len(arr) THEN <<>>
    ELSE (IF i \in keep THEN <<arr[i]>> ELSE <<>>) \o filterFrom(arr, keep, i + 1)

filter(arr, P(_)) == filterFrom(arr, {i \in 1..Len(arr) : P(arr[i])}, 1)

\* Array.prototype.sort with a comparator, stable: Before(a, b) is
\* compare(a, b) < 0
sort(arr, Before(_, _)) ==
    LET rank(i) == Cardinality({j \in 1..Len(arr) :
                        \/ Before(arr[j], arr[i])
                        \/ (~Before(arr[i], arr[j]) /\ j < i)}) + 1
    IN  [k \in 1..Len(arr) |-> arr[CHOOSE i \in 1..Len(arr) : rank(i) = k]]

\* String.prototype.trim
RECURSIVE trimStart(_)
trimStart(s) ==
    IF Len(s) > 0 /\ SubSeq(s, 1, 1) = " " THEN trimStart(SubSeq(s, 2, Len(s))) ELSE s

RECURSIVE trimEnd(_)
trimEnd(s) ==
    IF Len(s) > 0 /\ SubSeq(s, Len(s), Len(s)) = " " THEN trimEnd(SubSeq(s, 1, Len(s) - 1)) ELSE s

trim(s) == trimEnd(trimStart(s))

round255_floor(c) == (c * 255) \div 100

\* Math.round(c * 255) of a channel c given in hundredths
round255(c) == (c * 255 + 50) \div 100

-----------------------------------------------------------------------------
(* Catalogs *)

BUTTON_VARIANTS ==
    << [key |-> "primary",   value |-> "raised"],
       [key |-> "secondary", value |-> "stroked"],
       [key |-> "text",      value |-> "basic"],
       [key |-> "icon",      value |-> "icon"],
       [key |-> "flat",      value |-> "flat"] >>

INPUT_APPEARANCES ==
    << [key |-> "outline",  value |-> "outline"],
       [key |-> "standard", value |-> "standard"],
       [key |-> "fill",     value |-> "fill"] >>

COMPONENT_TYPE_IDS ==
    << [type |-> "Button",     ids |-> <<"button-primary", "button-secondary", "button-flat", "button-icon">>],
       [type |-> "Input",      ids |-> <<"input-standard", "input-outline", "input-fill", "text-field">>],
       [type |-> "Card",       ids |-> <<"card-standard", "card-elevated", "card-outlined">>],
       [type |-> "Checkbox",   ids |-> <<"checkbox-standard", "checkbox-indeterminate">>],
       [type |-> "Radio",      ids |-> <<"radio-button", "radio-option">>],
       [type |-> "Select",     ids |-> <<"select-standard", "dropdown", "combobox">>],
       [type |-> "DatePicker", ids |-> <<"date-picker", "calendar-input">>],
       [type |-> "Tabs",       ids |-> <<"tabs-standard", "tab-bar">>],
       [type |-> "Table",      ids |-> <<"table-standard", "data-table">>] >>

-----------------------------------------------------------------------------
(* Classification *)

isText(child) == child.type = "TEXT"

isComponentCandidate_panel(node) ==
    IF Get(node, "type") = "COMPONENT" \/ Get(node, "type") = "INSTANCE" THEN TRUE
    ELSE IF Get(node, "type") = "FRAME" THEN
        LET nameLower == toLowerCase(node.name)
        IN  \E k \in {"button", "input", "field", "card", "checkbox", "select",
                       "date", "table", "tab", "carousel", "panel"} : includes(nameLower, k)
    ELSE FALSE

isComponentCandidate_group(node) ==
    IF Get(node, "type") = "COMPONENT" \/ Get(node, "type") = "INSTANCE" THEN TRUE
    ELSE IF Get(node, "type") = "FRAME" \/ Get(node, "type") = "GROUP" THEN
        LET nameLower == toLowerCase(node.name)
        IN  \E k \in {"button", "input", "field", "card", "checkbox", "select",
                       "date", "table", "tab", "carousel"} : includes(nameLower, k)
    ELSE FALSE

isComponentCandidate(node) ==
    IF Get(node, "type") = "COMPONENT" \/ Get(node, "type") = "INSTANCE" THEN TRUE
    ELSE IF Get(node, "type") = "FRAME" THEN
        LET nameLower == toLowerCase(node.name)
        IN  \/ includes(nameLower, "button")
            \/ includes(nameLower, "input")
            \/ includes(nameLower, "field")
            \/ includes(nameLower, "card")
            \/ includes(nameLower, "checkbox")
            \/ includes(nameLower, "select")
            \/ includes(nameLower, "date")
            \/ includes(nameLower, "table")
            \/ includes(nameLower, "tab")
            \/ includes(nameLower, "carousel")
    ELSE FALSE

hasButtonLikeStructure_either(node) ==
    LET hasButtonShape == Has(node, "cornerRadius") /\ node.cornerRadius # 0
                          /\ node.cornerRadius > 0
        isClickable == \/ includes(toLowerCase(node.name), "click")
                       \/ includes(toLowerCase(node.name), "action")
        hasLimitedSize == /\ Has(node, "absoluteBoundingBox")
                          /\ node.absoluteBoundingBox.width < 300
                          /\ node.absoluteBoundingBox.height < 100
    IN  hasButtonShape \/ (isClickable \/ hasLimitedSize)

hasButtonLikeStructure(node) ==
    LET hasButtonShape == Has(node, "cornerRadius") /\ node.cornerRadius # 0
                          /\ node.cornerRadius > 0
        isClickable == \/ includes(toLowerCase(node.name), "click")
                       \/ includes(toLowerCase(node.name), "action")
        hasLimitedSize == /\ Has(node, "absoluteBoundingBox")
                          /\ node.absoluteBoundingBox.width < 300
                          /\ node.absoluteBoundingBox.height < 100
    IN  hasButtonShape /\ (isClickable \/ hasLimitedSize)

hasInputFieldStructure(node) ==
    IF ~Has(node, "children") THEN FALSE
    ELSE
        LET isLabel(child) ==
                /\ child.type = "TEXT"
                /\ \/ includes(toLowerCase(child.name), "label")
                   \/ (Has(child, "characters") /\ Len(child.characters) < 30)
            isInputArea(child) ==
                \/ child.type = "RECTANGLE"
                \/ (child.type = "FRAME" /\ includes(toLowerCase(child.name), "input"))
            hasLabel == some(node.children, isLabel)
            hasInputArea == some(node.children, isInputArea)
        IN  hasLabel /\ hasInputArea

hasCardStructure(node) ==
    IF node.type # "FRAME" /\ node.type # "GROUP" THEN FALSE
    ELSE
        LET isShadow(effect) == effect.type = "DROP_SHADOW" /\ isVisible(effect)
            hasElevation == Has(node, "effects") /\ some(node.effects, isShadow)
            hasCardContent == /\ Has(node, "children")
                              /\ Len(node.children) > 1
                              /\ some(node.children, isText)
        IN  hasElevation /\ hasCardContent

\* the catalog lookup at the head of detectComponentType
typeById(node) ==
    LET byId == {i \in 1..Len(COMPONENT_TYPE_IDS) :
                    /\ Has(node, "componentId")
                    /\ node.componentId # ""
                    /\ arrayIncludes(COMPONENT_TYPE_IDS[i].ids, node.componentId)}
    IN  IF byId # {} THEN
            COMPONENT_TYPE_IDS[CHOOSE i \in byId : \A j \in byId : i <= j].type
        ELSE undefined

isTabsName_anyTab(nameLower) == includes(nameLower, "tab")

isTabsName(nameLower) == includes(nameLower, "tab") /\ ~includes(nameLower, "table")

typeByName_radio(nameLower) ==
    IF includes(nameLower, "button") THEN "Button"
    ELSE IF includes(nameLower, "input") \/ includes(nameLower, "field") THEN "Input"
    ELSE IF includes(nameLower, "card") THEN "Card"
    ELSE IF includes(nameLower, "check") THEN "Checkbox"
    ELSE IF includes(nameLower, "radio") THEN "Radio"
    ELSE IF \/ includes(nameLower, "select")
            \/ includes(nameLower, "dropdown")
            \/ includes(nameLower, "combo") THEN "Select"
    ELSE IF includes(nameLower, "date") \/ includes(nameLower, "calendar") THEN "DatePicker"
    ELSE IF isTabsName(nameLower) THEN "Tabs"
    ELSE IF includes(nameLower, "table") THEN "Table"
    ELSE IF includes(nameLower, "carousel") \/ includes(nameLower, "slider") THEN "Carousel"
    ELSE undefined

\* the name patterns of detectComponentType
typeByName(nameLower) ==
    IF includes(nameLower, "button") THEN "Button"
    ELSE IF \/ includes(nameLower, "input")
            \/ includes(nameLower, "field")
            \/ includes(nameLower, "text field") THEN "Input"
    ELSE IF includes(nameLower, "card") THEN "Card"
    ELSE IF includes(nameLower, "check") \/ includes(nameLower, "checkbox") THEN "Checkbox"
    ELSE IF \/ includes(nameLower, "select")
            \/ includes(nameLower, "dropdown")
            \/ includes(nameLower, "combo") THEN "Select"
    ELSE IF includes(nameLower, "date") \/ includes(nameLower, "calendar") THEN "DatePicker"
    ELSE IF isTabsName(nameLower) THEN "Tabs"
    ELSE IF includes(nameLower, "table") \/ includes(nameLower, "data table") THEN "Table"
    ELSE IF includes(nameLower, "carousel") \/ includes(nameLower, "slider") THEN "Carousel"
    ELSE undefined

typeByStructure_inputFirst(node) ==
    IF hasInputFieldStructure(node) THEN "Input"
    ELSE IF hasButtonLikeStructure(node) THEN "Button"
    ELSE IF hasCardStructure(node) THEN "Card"
    ELSE "Custom"

\* the structure analysis and the default of detectComponentType
typeByStructure(node) ==
    IF hasButtonLikeStructure(node) THEN "Button"
    ELSE IF hasInputFieldStructure(node) THEN "Input"
    ELSE IF hasCardStructure(node) THEN "Card"
    ELSE "Custom"

detectComponentType_nameFirst(node) ==
    LET nameLower == toLowerCase(node.name)
    IN  IF typeByName(nameLower) # undefined THEN typeByName(nameLower)
        ELSE IF typeById(node) # undefined THEN typeById(node)
        ELSE typeByStructure(node)

detectComponentType(node) ==
    LET nameLower == toLowerCase(node.name)
    IN  IF typeById(node) # undefined THEN typeById(node)
        ELSE IF typeByName(nameLower) # undefined THEN typeByName(nameLower)
        ELSE typeByStructure(node)

fullySupported == <<"Button", "Input", "Card", "Checkbox", "Radio">>
partiallySupported == <<"Select", "DatePicker", "Tabs", "Table">>

determineComponentSupportStatus_noRadio(componentType) ==
    IF arrayIncludes(<<"Button", "Input", "Card", "Checkbox">>, componentType) THEN "supported"
    ELSE IF arrayIncludes(partiallySupported, componentType) THEN "partial"
    ELSE "unsupported"

determineComponentSupportStatus_carousel(componentType) ==
    IF arrayIncludes(fullySupported, componentType) THEN "supported"
    ELSE IF arrayIncludes(partiallySupported \o <<"Carousel">>, componentType) THEN "partial"
    ELSE "unsupported"

determineComponentSupportStatus(componentType) ==
    IF arrayIncludes(fullySupported, componentType) THEN "supported"
    ELSE IF arrayIncludes(partiallySupported, componentType) THEN "partial"
    ELSE "unsupported"

componentMap ==
    [Button     |-> "mat-button",
     Input      |-> "mat-form-field",
     Card       |-> "mat-card",
     Checkbox   |-> "mat-checkbox",
     Radio      |-> "mat-radio",
     Select     |-> "mat-select",
     DatePicker |-> "mat-datepicker",
     Tabs       |-> "mat-tabs",
     Table      |-> "mat-table"]

mapToAngularMaterialComponent_fallback(componentType) ==
    IF componentType \in DOMAIN componentMap THEN componentMap[componentType]
    ELSE "custom-component"

mapToAngularMaterialComponent(componentType) ==
    IF componentType \in DOMAIN componentMap THEN componentMap[componentType]
    ELSE undefined

-----------------------------------------------------------------------------
(* Property extraction.  Opacities and colour channels are fractions of   *)
(* one in the code; the model counts them in hundredths.                   *)

truthyId(node) == Has(node, "componentId") /\ node.componentId # ""

\* the first entry of a catalog whose key is a substring of s; 0 if none
catalogIndex(catalog, s) ==
    LET hit == {i \in 1..Len(catalog) : includes(s, catalog[i].key)}
    IN  IF hit = {} THEN 0 ELSE CHOOSE i \in hit : \A j \in hit : i <= j

filled(fill) == isVisible(fill) /\ Has(fill, "opacity") /\ fill.opacity > 0

faint(fill) == Has(fill, "opacity") /\ fill.opacity < 20

visibleShadow_any(effect) == effect.type = "DROP_SHADOW"

visibleShadow(effect) == effect.type = "DROP_SHADOW" /\ isVisible(effect)

determineButtonVariant(node) ==
    LET byId == IF truthyId(node) THEN catalogIndex(BUTTON_VARIANTS, node.componentId) ELSE 0
        byName == catalogIndex(BUTTON_VARIANTS, toLowerCase(node.name))
        hasFill == Has(node, "fills") /\ some(node.fills, filled)
        hasStroke == Has(node, "strokes") /\ some(node.strokes, isVisible)
    IN  IF byId # 0 THEN BUTTON_VARIANTS[byId].value
        ELSE IF byName # 0 THEN BUTTON_VARIANTS[byName].value
        ELSE IF Has(node, "effects") /\ some(node.effects, visibleShadow) THEN "raised"
        ELSE IF hasStroke /\ (~hasFill \/ every(node.fills, faint)) THEN "stroked"
        ELSE IF hasFill THEN "flat"
        ELSE "basic"

determineColorTheme(node) ==
    LET nameLower == toLowerCase(node.name)
        i == IF Has(node, "fills") THEN findIndex(node.fills, filled) ELSE 0
        hasColor == i # 0 /\ Has(node.fills[i], "color")
        r == node.fills[i].color.r
        g == node.fills[i].color.g
        b == node.fills[i].color.b
    IN  IF includes(nameLower, "primary") THEN "primary"
        ELSE IF includes(nameLower, "accent") \/ includes(nameLower, "secondary") THEN "accent"
        ELSE IF \/ includes(nameLower, "warn")
                \/ includes(nameLower, "danger")
                \/ includes(nameLower, "error") THEN "warn"
        ELSE IF hasColor /\ r > 70 /\ g < 30 /\ b < 30 THEN "warn"
        ELSE IF hasColor /\ r < 30 /\ g < 50 /\ b > 70 THEN "primary"
        ELSE IF hasColor /\ r > 70 /\ g > 50 /\ b < 30 THEN "accent"
        ELSE "primary"

max3(r, g, b) == IF r >= g /\ r >= b THEN r ELSE IF g >= b THEN g ELSE b
min3(r, g, b) == IF r <= g /\ r <= b THEN r ELSE IF g <= b THEN g ELSE b

isNodeDisabled(node) ==
    LET i == IF Has(node, "fills") THEN findIndex(node.fills, isVisible) ELSE 0
        hasColor == i # 0 /\ Has(node.fills[i], "color")
        max == max3(node.fills[i].color.r, node.fills[i].color.g, node.fills[i].color.b)
        min == min3(node.fills[i].color.r, node.fills[i].color.g, node.fills[i].color.b)
    IN  IF includes(toLowerCase(node.name), "disabled") THEN TRUE
        ELSE IF Has(node, "opacity") /\ node.opacity # 0 /\ node.opacity < 50 THEN TRUE
        \* saturation = max === 0 ? 0 : (max - min) / max, compared with 0.1
        ELSE IF hasColor /\ (max = 0 \/ 10 * (max - min) < max) THEN TRUE
        ELSE FALSE

hasChildIcon(node) ==
    IF ~Has(node, "children") THEN FALSE
    ELSE LET isIcon(child) ==
                \/ child.type = "VECTOR"
                \/ includes(toLowerCase(child.name), "icon")
                \/ /\ Has(child, "width") /\ child.width # 0
                   /\ Has(child, "height") /\ child.height # 0
                   /\ child.width = child.height /\ child.width < 24
         IN  some(node.children, isIcon)

determineInputAppearance(node) ==
    LET byId == IF truthyId(node) THEN catalogIndex(INPUT_APPEARANCES, node.componentId) ELSE 0
        byName == catalogIndex(INPUT_APPEARANCES, toLowerCase(node.name))
        hasStroke == Has(node, "strokes") /\ some(node.strokes, isVisible)
        hasFill == Has(node, "fills") /\ some(node.fills, filled)
    IN  IF byId # 0 THEN INPUT_APPEARANCES[byId].value
        ELSE IF byName # 0 THEN INPUT_APPEARANCES[byName].value
        ELSE IF hasStroke THEN "outline"
        ELSE IF hasFill THEN "fill"
        ELSE "standard"

fontSizeOf(child) ==
    IF Has(child, "style") /\ Has(child.style, "fontSize") THEN child.style.fontSize ELSE 0

fontWeightOf_none(child) == 0

fontWeightOf(child) ==
    IF Has(child, "style") /\ Has(child.style, "fontWeight") THEN child.style.fontWeight ELSE 0

lengthOf(child) == IF Has(child, "characters") THEN Len(child.characters) ELSE 0

extractTextContent(node, purpose) ==
    IF ~Has(node, "children") THEN null
    ELSE
        LET named(child) == /\ child.type = "TEXT"
                            /\ includes(toLowerCase(child.name), toLowerCase(purpose))
            textByName == findIndex(node.children, named)
            textNodes == filter(node.children, isText)
            bolder(a, b) == IF fontSizeOf(a) # fontSizeOf(b)
                            THEN fontSizeOf(b) - fontSizeOf(a) < 0
                            ELSE fontWeightOf(b) - fontWeightOf(a) < 0
            longer(a, b) == lengthOf(b) - lengthOf(a) < 0
            \* child.y < node.height * 0.3 || child.x < node.width * 0.2
            topLeft(child) ==
                /\ child.type = "TEXT"
                /\ \/ Has(child, "y") /\ Has(node, "height") /\ 10 * child.y < 3 * node.height
                   \/ Has(child, "x") /\ Has(node, "width") /\ 10 * child.x < 2 * node.width
            labels == filter(node.children, topLeft)
        IN  IF textByName # 0 /\ truthyString(Get(node.children[textByName], "characters"))
            THEN node.children[textByName].characters
            ELSE IF purpose \in {"title", "heading"} /\ Len(textNodes) > 0
            THEN Get(sort(textNodes, bolder)[1], "characters")
            ELSE IF purpose = "label" /\ Len(labels) > 0
            THEN Get(labels[1], "characters")
            ELSE IF purpose = "content" /\ Len(textNodes) > 0
            THEN Get(sort(textNodes, longer)[1], "characters")
            ELSE null

isInputRequired(node) ==
    IF includes(toLowerCase(node.name), "required") THEN TRUE
    ELSE IF Has(node, "children") THEN
        LET marked(child) ==
                \/ child.type = "TEXT" /\ Has(child, "characters") /\ includes(child.characters, "*")
                \/ includes(toLowerCase(child.name), "required")
                \/ includes(toLowerCase(child.name), "asterisk")
        IN  some(node.children, marked)
    ELSE FALSE

hasActionButtons(node) ==
    IF ~Has(node, "children") THEN FALSE
    ELSE
        LET actionsFrame(child) ==
                /\ child.type = "FRAME" \/ child.type = "GROUP"
                /\ \/ includes(toLowerCase(child.name), "action")
                   \/ includes(toLowerCase(child.name), "button")
            buttonLike(child) ==
                /\ child.type = "INSTANCE"
                /\ \/ Has(child, "componentId") /\ includes(child.componentId, "button")
                   \/ includes(toLowerCase(child.name), "button")
        IN  some(node.children, actionsFrame) \/ some(node.children, buttonLike)

\* name.replace(/option|item/i, ''): the leftmost match is removed
removeOptionWord(name) ==
    LET lower == toLowerCase(name)
        at(i, w) == i + Len(w) - 1 <= Len(lower) /\ SubSeq(lower, i, i + Len(w) - 1) = w
        hit == {i \in 1..Len(lower) : at(i, "option") \/ at(i, "item")}
        first == CHOOSE i \in hit : \A j \in hit : i <= j
        width == IF at(first, "option") THEN 6 ELSE 4
    IN  IF hit = {} THEN name
        ELSE SubSeq(name, 1, first - 1) \o SubSeq(name, first + width, Len(name))

optionText(option) ==
    IF truthyString(Get(option, "characters")) THEN option.characters
    ELSE IF Has(option, "children") /\ some(option.children, isText)
    THEN Get(option.children[findIndex(option.children, isText)], "characters")
    ELSE trim(removeOptionWord(option.name))

extractSelectOptions(node) ==
    IF ~Has(node, "children") THEN nullArray
    ELSE
        LET isOption(child) == \/ includes(toLowerCase(child.name), "option")
                               \/ includes(toLowerCase(child.name), "item")
            optionNodes == filter(node.children, isOption)
        IN  IF Len(optionNodes) > 0
            THEN [i \in 1..Len(optionNodes) |-> optionText(optionNodes[i])]
            ELSE nullArray

\* a || b on strings
orElse(a, b) == IF truthyString(a) THEN a ELSE b

extractComponentProperties(node, componentType) ==
    CASE componentType = "Button" ->
            [variant  |-> determineButtonVariant(node),
             color    |-> determineColorTheme(node),
             disabled |-> isNodeDisabled(node),
             icon     |-> hasChildIcon(node)]
      [] componentType = "Input" ->
            [appearance |-> determineInputAppearance(node)]
            @@ Field("label", extractTextContent(node, "label"))
            @@ Field("placeholder", orElse(extractTextContent(node, "placeholder"),
                                           extractTextContent(node, "hint")))
            @@ [required |-> isInputRequired(node)]
      [] componentType = "Card" ->
            Field("title", extractTextContent(node, "title"))
            @@ (IF truthyString(extractTextContent(node, "subtitle"))
                THEN Field("subtitle", extractTextContent(node, "subtitle")) ELSE <<>>)
            @@ Field("content", extractTextContent(node, "content"))
            @@ [actions |-> hasActionButtons(node)]
      [] componentType = "DatePicker" ->
            Field("label", orElse(extractTextContent(node, "label"), "Choose a date"))
            @@ [appearance |-> determineInputAppearance(node)]
      [] componentType = "Select" ->
            Field("label", orElse(extractTextContent(node, "label"), "Select an option"))
            @@ [appearance |-> determineInputAppearance(node)]
            @@ [options |-> extractSelectOptions(node)]
      [] OTHER -> <<>>

\* the node as a call of extractTextContent leaves it.  find and filter
\* return new values; both sorts reorder textNodes, the array that filter
\* returned, and nothing is assigned to the node or to node.children
nodeAfterTextContent_inPlace(node, purpose) ==
    LET named(child) == /\ child.type = "TEXT"
                        /\ includes(toLowerCase(child.name), toLowerCase(purpose))
        textByName == findIndex(node.children, named)
        bolder(a, b) == IF fontSizeOf(a) # fontSizeOf(b)
                        THEN fontSizeOf(b) - fontSizeOf(a) < 0
                        ELSE fontWeightOf(b) - fontWeightOf(a) < 0
        longer(a, b) == lengthOf(b) - lengthOf(a) < 0
    IN  IF ~Has(node, "children") THEN node
        ELSE IF textByName # 0 /\ truthyString(Get(node.children[textByName], "characters"))
        THEN node
        ELSE IF purpose \in {"title", "heading"} /\ some(node.children, isText)
        THEN [node EXCEPT !.children = sort(node.children, bolder)]
        ELSE IF purpose = "content" /\ some(node.children, isText)
        THEN [node EXCEPT !.children = sort(node.children, longer)]
        ELSE node

nodeAfterTextContent(node, purpose) == node

\* the purposes of the calls of extractTextContent that
\* extractComponentProperties makes, in order
textPurposes(node, componentType) ==
    CASE componentType = "Input" ->
            <<"label", "placeholder">>
            \o (IF truthyString(extractTextContent(node, "placeholder")) THEN <<>> ELSE <<"hint">>)
      [] componentType = "Card" -> <<"title", "subtitle", "content">>
      [] componentType \in {"DatePicker", "Select"} -> <<"label">>
      [] OTHER -> <<>>

\* the node as extractComponentProperties leaves it
nodeAfterProperties(node, componentType) ==
    LET purposes == textPurposes(node, componentType)
        After[i \in 0..Len(purposes)] ==
            IF i = 0 THEN node ELSE nodeAfterTextContent(After[i - 1], purposes[i])
    IN  After[Len(purposes)]

-----------------------------------------------------------------------------
(* Style extraction *)

truthyNumber(obj, key) == Has(obj, key) /\ obj[key] # 0

numberOrZero(obj, key) == IF truthyNumber(obj, key) THEN obj[key] ELSE 0

rgb255(color) == [r |-> round255(color.r), g |-> round255(color.g), b |-> round255(color.b)]

extractComponentStyles(node) ==
    LET box == node.absoluteBoundingBox
        fill == IF Has(node, "fills") THEN findIndex(node.fills, isVisible) ELSE 0
        stroke == IF Has(node, "strokes") THEN findIndex(node.strokes, isVisible) ELSE 0
        shadow == IF Has(node, "effects") THEN findIndex(node.effects, visibleShadow) ELSE 0
        shadowEffect == node.effects[shadow]
        offset(axis) == IF Has(shadowEffect, "offset") THEN numberOrZero(shadowEffect.offset, axis)
                        ELSE 0
    IN  (IF Has(node, "absoluteBoundingBox") /\ truthyNumber(box, "width")
         THEN [width |-> box.width] ELSE <<>>)
        @@ (IF Has(node, "absoluteBoundingBox") /\ truthyNumber(box, "height")
            THEN [height |-> box.height] ELSE <<>>)
        @@ (IF truthyNumber(node, "cornerRadius")
            THEN [borderRadius |-> node.cornerRadius] ELSE <<>>)
        @@ (IF \/ truthyNumber(node, "paddingLeft") \/ truthyNumber(node, "paddingRight")
               \/ truthyNumber(node, "paddingTop") \/ truthyNumber(node, "paddingBottom")
            THEN [padding |-> [left   |-> numberOrZero(node, "paddingLeft"),
                               right  |-> numberOrZero(node, "paddingRight"),
                               top    |-> numberOrZero(node, "paddingTop"),
                               bottom |-> numberOrZero(node, "paddingBottom")]]
            ELSE <<>>)
        @@ (IF Has(node, "style")
            THEN [typography |->
                    (IF Has(node.style, "fontSize") THEN [fontSize |-> node.style.fontSize] ELSE <<>>)
                    @@ (IF Has(node.style, "fontWeight") THEN [fontWeight |-> node.style.fontWeight] ELSE <<>>)
                    @@ (IF Has(node.style, "lineHeight") THEN [lineHeight |-> node.style.lineHeight] ELSE <<>>)
                    @@ (IF Has(node.style, "letterSpacing") THEN [letterSpacing |-> node.style.letterSpacing] ELSE <<>>)
                    @@ (IF Has(node.style, "textAlignHorizontal")
                        THEN [textAlign |-> node.style.textAlignHorizontal] ELSE <<>>)]
            ELSE <<>>)
        @@ (IF fill # 0 /\ Has(node.fills[fill], "color")
            THEN [backgroundColor |-> rgb255(node.fills[fill].color)] ELSE <<>>)
        @@ (IF stroke # 0 /\ Has(node.strokes[stroke], "color")
            THEN [borderColor |-> rgb255(node.strokes[stroke].color)] ELSE <<>>)
        @@ (IF shadow # 0
            THEN [boxShadow |->
                    [offsetX |-> offset("x"),
                     offsetY |-> offset("y"),
                     radius  |-> numberOrZero(shadowEffect, "radius"),
                     color   |-> IF Has(shadowEffect, "color")
                                 THEN rgb255(shadowEffect.color)
                                      @@ [a |-> IF truthyNumber(shadowEffect.color, "a")
                                                THEN shadowEffect.color.a ELSE 100]
                                 ELSE [r |-> 0, g |-> 0, b |-> 0, a |-> 25]]]
            ELSE <<>>)

-----------------------------------------------------------------------------
(* Input trees *)

Node(type, name) == [id |-> "", type |-> type, name |-> name]

Digits == "123456789"

\* the node with the ids of its subtree set to the path from the document
RECURSIVE Relabel(_, _)
Relabel(node, id) ==
    LET self == IF Has(node, "id") THEN [node EXCEPT !.id = id] ELSE node
        childId(i) == (IF id = "" THEN "" ELSE id \o ":") \o SubSeq(Digits, i, i)
    IN  IF Has(node, "children")
        THEN [self EXCEPT !.children =
                [i \in 1..Len(node.children) |-> Relabel(node.children[i], childId(i))]]
        ELSE self

\* node labels of the generated trees
TreePool ==
    { Node("FRAME", "Card Component"),
      Node("FRAME", "Panel"),
      Node("GROUP", "Button Group"),
      Node("INSTANCE", "Tabs"),
      Node("COMPONENT", "Widget"),
      Node("TEXT", "Label") @@ [characters |-> "Username"] }

\* ForestsOf(n): the sequences of trees with n nodes in all;
\* TreesOf(n): the trees with n nodes
RECURSIVE ForestsOf(_), TreesOf(_)
TreesOf(n) ==
    {IF f = <<>> THEN p ELSE p @@ [children |-> f] : p \in TreePool, f \in ForestsOf(n - 1)}

ForestsOf(n) ==
    IF n = 0 THEN {<<>>}
    ELSE UNION {{<<t>> \o f : t \in TreesOf(k), f \in ForestsOf(n - k)} : k \in 1..n}

GeneratedDocuments ==
    {[children |-> f] : f \in UNION {ForestsOf(n) : n \in 0..MaxNodes}}

\* single nodes that exercise the classifier: kind, name and component id
ClassifyTypes == {"FRAME", "GROUP", "INSTANCE", "COMPONENT", "RECTANGLE"}

ClassifyNames ==
    { "Primary Button", "Tab Button", "Search Input", "Text Field", "Input Card",
      "Card Component", "Checkbox", "Check Mark", "Select Menu", "Dropdown",
      "Combo Box", "Date Picker", "Calendar", "Tab Bar", "Data Table",
      "TABLE", "Custom Carousel", "Image Slider", "Widget", "Radio Option" }

ClassifyIds ==
    { "button-primary", "text-field", "card-elevated", "checkbox-standard",
      "radio-button", "dropdown", "calendar-input", "tab-bar", "data-table",
      "button-text", "" }

ClassifyPool ==
    {Node(t, n) : t \in ClassifyTypes, n \in ClassifyNames}
    \cup {Node(t, n) @@ [componentId |-> c] :
            t \in ClassifyTypes, n \in ClassifyNames, c \in ClassifyIds}

\* single nodes that exercise the structural tests
Shadow == [type |-> "DROP_SHADOW"]
HiddenShadow == [type |-> "DROP_SHADOW", visible |-> FALSE]

StructChildren ==
    { <<>>,
      << Node("TEXT", "Caption") @@ [characters |-> "Username"], Node("RECTANGLE", "Box") >>,
      << Node("TEXT", "Body") @@ [characters |-> "This is the card content area with description text."],
         Node("VECTOR", "Arrow") >>,
      << Node("TEXT", "Field Label") >> }

StructPool ==
    { Node(t, n) @@ c @@ b @@ e @@ k :
        t \in {"FRAME", "GROUP", "INSTANCE", "COMPONENT"},
        n \in {"Widget", "Click Me", "Panel"},
        c \in {<<>>, [cornerRadius |-> 0], [cornerRadius |-> 4]},
        b \in {<<>>, [absoluteBoundingBox |-> [width |-> 120, height |-> 40]],
                     [absoluteBoundingBox |-> [width |-> 320, height |-> 200]]},
        e \in {<<>>, [effects |-> <<Shadow>>], [effects |-> <<HiddenShadow>>]},
        k \in {<<>>} \cup {[children |-> ch] : ch \in StructChildren} }

\* the document that importFigmaFile returns
MockDocument ==
    [children |-> <<
        Node("CANVAS", "Page 1") @@ [children |-> <<
            Node("INSTANCE", "Primary Button") @@
                [componentId |-> "button-primary",
                 fills |-> <<[type |-> "SOLID", color |-> [r |-> 20, g |-> 40, b |-> 90]]>>,
                 effects |-> <<[type |-> "DROP_SHADOW", visible |-> TRUE]>>,
                 absoluteBoundingBox |-> [width |-> 120, height |-> 40],
                 strokes |-> <<>>,
                 cornerRadius |-> 4],
            Node("INSTANCE", "Input Field") @@
                [componentId |-> "input-standard",
                 absoluteBoundingBox |-> [width |-> 280, height |-> 56],
                 fills |-> <<[type |-> "SOLID", color |-> [r |-> 100, g |-> 100, b |-> 100]]>>,
                 strokes |-> <<[type |-> "SOLID", color |-> [r |-> 80, g |-> 80, b |-> 80]]>>,
                 cornerRadius |-> 4,
                 children |-> <<
                    Node("TEXT", "Label") @@ [characters |-> "Username"],
                    Node("RECTANGLE", "Input"),
                    Node("TEXT", "Hint") @@ [characters |-> "Enter your username"] >>],
            Node("FRAME", "Card Component") @@
                [absoluteBoundingBox |-> [width |-> 320, height |-> 200],
                 fills |-> <<[type |-> "SOLID", color |-> [r |-> 100, g |-> 100, b |-> 100]]>>,
                 effects |-> <<[type |-> "DROP_SHADOW", visible |-> TRUE]>>,
                 cornerRadius |-> 8,
                 children |-> <<
                    Node("TEXT", "Card Title") @@
                        [characters |-> "Card Title",
                         style |-> [fontWeight |-> 600, fontSize |-> 18]],
                    Node("TEXT", "Card Content") @@
                        [characters |-> "This is the card content area with description text."],
                    Node("FRAME", "Card Actions") @@ [children |-> <<
                        Node("INSTANCE", "Action 1") @@ [componentId |-> "button-text"],
                        Node("INSTANCE", "Action 2") @@ [componentId |-> "button-text"] >>] >>],
            Node("INSTANCE", "Date Picker") @@
                [componentId |-> "date-picker",
                 absoluteBoundingBox |-> [width |-> 280, height |-> 56],
                 children |-> <<
                    Node("INSTANCE", "Input") @@
                        [componentId |-> "input-standard",
                         children |-> <<Node("TEXT", "Label") @@ [characters |-> "Select Date"]>>],
                    Node("VECTOR", "Calendar Icon") >>],
            Node("FRAME", "Custom Carousel") @@
                [absoluteBoundingBox |-> [width |-> 400, height |-> 240],
                 children |-> <<
                    Node("RECTANGLE", "Slide 1"),
                    Node("RECTANGLE", "Slide 2"),
                    Node("FRAME", "Navigation") @@ [children |-> <<
                        Node("VECTOR", "Prev"),
                        Node("VECTOR", "Next") >>] >>] >>] >>]

\* a carousel frame with two slides, under a page
CarouselDocument ==
    [children |-> <<
        Node("CANVAS", "Page 1") @@ [children |-> <<
            Node("FRAME", "Custom Carousel") @@ [children |-> <<
                Node("RECTANGLE", "Slide 1"),
                Node("RECTANGLE", "Slide 2") >>] >>] >>]

\* a card whose text children carry no purpose in their names: the largest
\* text is the second child and the longest the third
TextDocument ==
    [children |-> <<
        Node("FRAME", "Profile Card") @@ [children |-> <<
            Node("TEXT", "Caption") @@
                [characters |-> "Short note", style |-> [fontSize |-> 12]],
            Node("TEXT", "Headline") @@
                [characters |-> "Profile", style |-> [fontSize |-> 24, fontWeight |-> 700]],
            Node("TEXT", "Body") @@
                [characters |-> "This is the card content area with description text.",
                 style |-> [fontSize |-> 12]] >>] >>]

\* nodes without a name, without a type, or without both.  They stand
\* under the document or under a page: the extractors, which read the
\* names of the children of a candidate, are modelled for children that
\* have a name and a type
MalformedNodes ==
    {[id |-> "", type |-> t] :
        t \in {"FRAME", "INSTANCE", "COMPONENT", "TEXT", "GROUP", "RECTANGLE"}}
    \cup {[id |-> "", name |-> n] : n \in {"Primary Button", "Panel"}}
    \cup {[id |-> ""]}

MalformedDocuments ==
    {[children |-> <<m>>] : m \in MalformedNodes}
    \cup {[children |-> <<Node("CANVAS", "Page 1") @@ [children |-> <<m>>],
                          Node("FRAME", "Card Component")>>] : m \in MalformedNodes}

\* three instances: one with the shape of a button and the children of an
\* input, one with the children of an input only, and one with the shape
\* of a button and a name with "card"
FallbackDocument ==
    [children |-> <<
        Node("INSTANCE", "Widget") @@
            [cornerRadius |-> 4,
             absoluteBoundingBox |-> [width |-> 120, height |-> 40],
             children |-> << Node("TEXT", "Caption") @@ [characters |-> "Username"],
                             Node("RECTANGLE", "Box") >>],
        Node("INSTANCE", "Widget") @@
            [absoluteBoundingBox |-> [width |-> 320, height |-> 200],
             children |-> << Node("TEXT", "Caption") @@ [characters |-> "Username"],
                             Node("RECTANGLE", "Box") >>],
        Node("INSTANCE", "Info Card") @@
            [cornerRadius |-> 4,
             absoluteBoundingBox |-> [width |-> 120, height |-> 40]] >>]

\* effects: drop shadows with and without offset, radius and colour, shown
\* and hidden, and an inner shadow
BareShadow == [type |-> "DROP_SHADOW"]

ConcealedShadow ==
    [type |-> "DROP_SHADOW", visible |-> FALSE, offset |-> [x |-> 9, y |-> 9], radius |-> 9,
     color |-> [r |-> 100, g |-> 100, b |-> 100, a |-> 100]]

FullShadow ==
    [type |-> "DROP_SHADOW", visible |-> TRUE, offset |-> [x |-> 2, y |-> 4], radius |-> 8,
     color |-> [r |-> 90, g |-> 55, b |-> 1, a |-> 50]]

InnerShadow == [type |-> "INNER_SHADOW", offset |-> [x |-> 1, y |-> 1], radius |-> 3]

ClearShadow ==
    [type |-> "DROP_SHADOW", offset |-> [x |-> 0, y |-> 2],
     color |-> [r |-> 0, g |-> 0, b |-> 0, a |-> 0]]

PartShadow == [type |-> "DROP_SHADOW", offset |-> [x |-> 1], radius |-> 6]

Effects == {BareShadow, ConcealedShadow, FullShadow, InnerShadow, ClearShadow, PartShadow}

\* the lists of at most two values of a set
ListsOf(S) == {<<>>} \cup {<<a>> : a \in S} \cup {<<a, b>> : a \in S, b \in S}

\* fills: with and without opacity, hidden, without a colour
PlainFill == [type |-> "SOLID", color |-> [r |-> 20, g |-> 40, b |-> 90]]

HiddenFill ==
    [type |-> "SOLID", visible |-> FALSE, opacity |-> 50,
     color |-> [r |-> 100, g |-> 0, b |-> 0]]

HalfFill ==
    [type |-> "SOLID", visible |-> TRUE, opacity |-> 50,
     color |-> [r |-> 90, g |-> 55, b |-> 1]]

FaintGradient == [type |-> "GRADIENT_LINEAR", opacity |-> 10]

ClearFill == [type |-> "SOLID", opacity |-> 0, color |-> [r |-> 100, g |-> 100, b |-> 100]]

Fills == {PlainFill, HiddenFill, HalfFill, FaintGradient, ClearFill}

PlainStroke == [type |-> "SOLID", color |-> [r |-> 80, g |-> 80, b |-> 80]]

HiddenStroke == [type |-> "SOLID", visible |-> FALSE, color |-> [r |-> 0, g |-> 0, b |-> 100]]

GradientStroke == [type |-> "GRADIENT_LINEAR"]

StrokeLists ==
    { <<>>, <<PlainStroke>>, <<HiddenStroke>>, <<GradientStroke>>,
      <<HiddenStroke, PlainStroke>>, <<GradientStroke, PlainStroke>>,
      <<PlainStroke, HiddenStroke>> }

\* single nodes that exercise the styles and the button variant
EffectPool == {Node("INSTANCE", "Widget") @@ [effects |-> l] : l \in ListsOf(Effects)}

PaintPool ==
    { Node("INSTANCE", "OK Button") @@ f @@ k @@ e :
        f \in {<<>>} \cup {[fills |-> l] : l \in ListsOf(Fills)},
        k \in {<<>>} \cup {[strokes |-> l] : l \in StrokeLists},
        e \in {<<>>, [effects |-> <<BareShadow>>], [effects |-> <<ConcealedShadow>>]} }

VariantPool ==
    { Node("INSTANCE", n) @@ c @@ v :
        n \in {"OK Button", "Secondary Button", "Flat Icon Button"},
        c \in {<<>>} \cup {[componentId |-> i] : i \in {"", "button-text", "custom-primary-flat"}},
        v \in {<<>>, [effects |-> <<BareShadow>>], [strokes |-> <<PlainStroke>>],
                [fills |-> <<HalfFill>>]} }

\* four instances: one with nothing to style, one whose first shadow is
\* hidden and whose second has no offset, radius or colour, one with two
\* shown shadows after an inner shadow, and one with three fills and two
\* strokes of which the first is hidden
StyleDocument ==
    [children |-> <<
        Node("INSTANCE", "Widget"),
        Node("INSTANCE", "Widget") @@ [effects |-> <<ConcealedShadow, BareShadow>>],
        Node("INSTANCE", "Widget") @@ [effects |-> <<InnerShadow, PartShadow, FullShadow>>],
        Node("INSTANCE", "Widget") @@
            [fills |-> <<HiddenFill, HalfFill, PlainFill>>,
             strokes |-> <<HiddenStroke, PlainStroke>>] >>]

\* buttons that exercise the colour theme and the disabled test: names with
\* and without a theme word, fills of several colours with and without an
\* opacity, and node opacities around one half
Paint(r, g, b) == [type |-> "SOLID", color |-> [r |-> r, g |-> g, b |-> b]]

ThemeColors ==
    { Paint(90, 10, 10), Paint(10, 20, 90), Paint(90, 60, 10),
      Paint(50, 50, 50), Paint(0, 0, 0), Paint(70, 30, 30) }

ThemeFillLists ==
    {<<>>}
    \cup {<<p>> : p \in ThemeColors}
    \cup {<<p @@ [opacity |-> 100]>> : p \in ThemeColors}
    \cup { <<HiddenFill, Paint(10, 20, 90) @@ [opacity |-> 100]>>,
           <<Paint(50, 50, 50) @@ [opacity |-> 100], Paint(90, 10, 10) @@ [opacity |-> 100]>> }

ThemeNames ==
    { "OK Button", "Primary Button", "Accent Button", "Secondary Button",
      "Warn Button", "Danger Button", "Error Button", "Disabled Button" }

ThemePool ==
    { Node("INSTANCE", n) @@ f @@ o :
        n \in ThemeNames,
        f \in {<<>>} \cup {[fills |-> l] : l \in ThemeFillLists},
        o \in {<<>>} \cup {[opacity |-> v] : v \in {0, 30, 50, 80}} }

\* a card and an input with up to three children out of: texts with and
\* without a role in their names, with and without text, font size, font
\* weight and position, and a rectangle
TextChildren ==
    { Node("TEXT", "Title") @@
        [characters |-> "Heading", style |-> [fontSize |-> 12], x |-> 200, y |-> 50],
      Node("TEXT", "Caption") @@
        [characters |-> "Short", style |-> [fontSize |-> 24, fontWeight |-> 400],
         x |-> 200, y |-> 10],
      Node("TEXT", "Note") @@
        [characters |-> "This is the card content area with description text.",
         style |-> [fontSize |-> 24, fontWeight |-> 700], x |-> 10, y |-> 90],
      Node("TEXT", "Label") @@ [x |-> 300, y |-> 90],
      Node("TEXT", "Hint Text") @@ [characters |-> "Enter"],
      Node("RECTANGLE", "Box Title") }

TextChildLists ==
    ListsOf(TextChildren)
    \cup {<<a, b, c>> : a \in TextChildren, b \in TextChildren, c \in TextChildren}

TextPool ==
    { Node(p[1], p[2]) @@ [width |-> 400, height |-> 100, children |-> l] :
        p \in {<<"FRAME", "Info Card">>, <<"INSTANCE", "Text Field">>},
        l \in TextChildLists }

\* the documents analysed with and without a file id and name
SampleDocuments ==
    {[children |-> <<n>>] : n \in ClassifyPool \cup StructPool}
    \cup {[children |-> <<n>>] : n \in EffectPool \cup PaintPool \cup VariantPool \cup ThemePool}
    \cup {[children |-> <<n>>] : n \in TextPool}
    \cup {MockDocument, CarouselDocument, TextDocument, FallbackDocument, StyleDocument}
    \cup MalformedDocuments

FileHeaders == {<<>>, [id |-> "abc123", name |-> "My Design"]}

\* the argument of a call: a generated document, or a sample document with
\* one of the file headers
IsFigmaInput(data) ==
    \/ \E d \in GeneratedDocuments : data = [document |-> Relabel(d, "")]
    \/ \E h \in FileHeaders, d \in SampleDocuments :
            data = h @@ [document |-> Relabel(d, "")]

-----------------------------------------------------------------------------
(* The browser side: ConversionProvider and the step components *)

\* largest number of handler runs awaiting a response together
MaxInFlight == 2

\* useState(null) of design, of selectedComponent and of generatedCode
NoDesign == [fileKey |-> null, components |-> <<>>]
NoComponent == [figmaId |-> null, name |-> null]
NoCode == [fileKey |-> null, componentId |-> null, html |-> null]

\* the design /api/figma/demo answers with
DemoDesign ==
    [fileKey    |-> "demo-figma-file",
     components |-> <<[figmaId |-> "demo:1", name |-> "Primary Button"],
                      [figmaId |-> "demo:2", name |-> "Input Field"],
                      [figmaId |-> "demo:3", name |-> "Card Component"],
                      [figmaId |-> "demo:4", name |-> "Date Picker"],
                      [figmaId |-> "demo:5", name |-> "Custom Carousel"]>>]

\* the share URLs typed into the input: none, and one of a file
FigmaUrls == {"", "https://www.figma.com/file/abc123/Design-System"}

\* the design /api/figma/import answers with: the analysis of the file that
\* importFigmaFile returns for the key of the URL
ImportedDesign ==
    [fileKey    |-> "abc123",
     components |-> <<[figmaId |-> "1:1", name |-> "Primary Button"],
                      [figmaId |-> "1:2", name |-> "Input Field"]>>]

\* the design /api/figma/upload answers with for a file without an id and
\* without a component candidate
UploadedDesign == [fileKey |-> "figma-file-1", components |-> <<>>]

\* the body /api/figma/component/:fileKey/:componentId answers with; fileKey
\* and componentId say which request the object answers
componentCode(fileKey, componentId) ==
    [fileKey     |-> fileKey,
     componentId |-> componentId,
     html        |-> "<button mat-raised-button color=\"primary\">"]

\* a handler run suspended at its await: the handler, whether the component
\* whose useState setters it holds is still mounted, and the fileKey and
\* componentId of its request
Run(handler, fileKey, componentId) ==
    [handler |-> handler, mounted |-> TRUE, fileKey |-> fileKey, componentId |-> componentId]

\* the state after the first render: the defaults of ConversionProvider, of
\* ImportStep and of ExportStep, no toast shown, no handler suspended
ClientStart ==
    [currentStep         |-> "import",
     figmaUrl            |-> "",
     uploadMethod        |-> "link",
     design              |-> NoDesign,
     isProcessing        |-> FALSE,
     isLoading           |-> FALSE,
     selectedComponentId |-> "",
     selectedComponent   |-> NoComponent,
     generatedCode       |-> NoCode,
     toast               |-> "",
     runs                |-> <<>>]

-----------------------------------------------------------------------------
(* analyzeFigmaComponents and traverseFigmaNodes *)

Init ==
    /\ IsFigmaInput(figmaData)
    /\ pc = "idle"
    /\ components = <<>>
    /\ frameCount = 0
    /\ stack = <<>>
    /\ result = NoResult
    /\ tree = figmaData.document
    /\ others = <<>>
    /\ running = 1
    /\ client = ClientStart

\* an activation of traverseFigmaNodes: its node, its own frameCount
\* parameter, and the child its forEach reaches next (0: body not yet run)
Activation(node, count) == [node |-> node, frameCount |-> count, next |-> 0]

Top == stack[Len(stack)]

childrenOf_instanceLeaf(node) ==
    IF Has(node, "children") /\ Get(node, "type") \notin {"INSTANCE", "COMPONENT"}
    THEN node.children ELSE <<>>

childrenOf(node) == IF Has(node, "children") THEN node.children ELSE <<>>

component(node) ==
    LET componentType == detectComponentType(node)
    IN  [figmaId       |-> node.id,
         name          |-> node.name,
         type          |-> componentType,
         supportStatus |-> determineComponentSupportStatus(componentType),
         properties    |-> extractComponentProperties(node, componentType),
         styles        |-> extractComponentStyles(node)]
        @@ Field("angularComponent", mapToAngularMaterialComponent(componentType))

RECURSIVE written(_, _, _)
\* the tree with the node of this id replaced
written(root, id, node) ==
    IF Get(root, "id") = id THEN node
    ELSE IF Has(root, "children")
    THEN [root EXCEPT !.children =
            [i \in 1..Len(root.children) |-> written(root.children[i], id, node)]]
    ELSE root

\* the body of traverseFigmaNodes throws a TypeError on this node: the
\* name of a FRAME (isComponentCandidate) or of an INSTANCE or COMPONENT
\* (detectComponentType) is read with node.name.toLowerCase()
throwsTypeError(node) ==
    /\ ~Has(node, "name")
    /\ Get(node, "type") \in {"FRAME", "INSTANCE", "COMPONENT"}

\* the error analyzeFigmaComponents rejects with
analysisError ==
    [error |-> "Failed to analyze Figma components: Cannot read properties of undefined (reading 'toLowerCase')"]

AnalyzeCall_moduleLevel ==
    /\ pc = "idle"
    /\ components' = components
    /\ frameCount' = frameCount
    /\ stack' = <<Activation(figmaData.document, 0)>>
    /\ pc' = "traverse"
    /\ UNCHANGED <<figmaData, result, tree, others, running, client>>

\* analyzeFigmaComponents up to its call of traverseFigmaNodes
AnalyzeCall ==
    /\ pc = "idle"
    /\ components' = <<>>
    /\ frameCount' = 0
    /\ stack' = <<Activation(figmaData.document, 0)>>
    /\ pc' = "traverse"
    /\ UNCHANGED <<figmaData, result, tree, others, running, client>>

\* the body of traverseFigmaNodes before its forEach
TraverseEnter ==
    /\ pc = "traverse"
    /\ stack # <<>>
    /\ Top.next = 0
    /\ ~throwsTypeError(Top.node)
    /\ components' = IF isComponentCandidate(Top.node)
                     THEN Append(components, component(Top.node))
                     ELSE components
    /\ stack' = [stack EXCEPT ![Len(stack)] =
                    [@ EXCEPT !.frameCount =
                                IF Get(Top.node, "type") = "FRAME" \/ Get(Top.node, "type") = "GROUP"
                                THEN @ + 1 ELSE @,
                              !.next = 1]]
    /\ tree' = IF isComponentCandidate(Top.node)
               THEN written(tree, Top.node.id,
                            nodeAfterProperties(Top.node, detectComponentType(Top.node)))
               ELSE tree
    /\ UNCHANGED <<figmaData, pc, frameCount, result, others, running, client>>

TraverseChild_reversed ==
    /\ pc = "traverse"
    /\ stack # <<>>
    /\ Top.next \in 1..Len(childrenOf(Top.node))
    /\ stack' = Append([stack EXCEPT ![Len(stack)].next = @ + 1],
                       Activation(childrenOf(Top.node)[Len(childrenOf(Top.node)) + 1 - Top.next],
                                  Top.frameCount))
    /\ UNCHANGED <<figmaData, pc, components, frameCount, result, tree, others, running, client>>

\* the body of traverseFigmaNodes throws: every activation is unwound and
\* the catch of analyzeFigmaComponents rethrows
TraverseThrow ==
    /\ pc = "traverse"
    /\ stack # <<>>
    /\ Top.next = 0
    /\ throwsTypeError(Top.node)
    /\ stack' = <<>>
    /\ result' = analysisError
    /\ pc' = "failed"
    /\ UNCHANGED <<figmaData, components, frameCount, tree, others, running, client>>

\* one round of the forEach: the recursive call on the next child
TraverseChild ==
    /\ pc = "traverse"
    /\ stack # <<>>
    /\ Top.next \in 1..Len(childrenOf(Top.node))
    /\ stack' = Append([stack EXCEPT ![Len(stack)].next = @ + 1],
                       Activation(childrenOf(Top.node)[Top.next], Top.frameCount))
    /\ UNCHANGED <<figmaData, pc, components, frameCount, result, tree, others, running, client>>

\* traverseFigmaNodes returns
TraverseReturn ==
    /\ pc = "traverse"
    /\ stack # <<>>
    /\ Top.next > Len(childrenOf(Top.node))
    /\ stack' = SubSeq(stack, 1, Len(stack) - 1)
    /\ UNCHANGED <<figmaData, pc, components, frameCount, result, tree, others, running, client>>

countStatus_unfiltered(comps, status) == Len(comps)

countStatus(comps, status) ==
    Len(filter(comps, LAMBDA c : c.supportStatus = status))

\* analyzeFigmaComponents after the traversal: the statistics and the result
AnalyzeReturn ==
    /\ pc = "traverse"
    /\ stack = <<>>
    /\ result' = [fileKey    |-> IF truthyString(Get(figmaData, "id")) THEN figmaData.id
                                 ELSE "figma-file-1",
                  fileName   |-> IF truthyString(Get(figmaData, "name")) THEN figmaData.name
                                 ELSE "Design System",
                  components |-> components,
                  stats      |-> [totalComponents |-> Len(components),
                                  frames          |-> frameCount,
                                  supported       |-> countStatus(components, "supported"),
                                  partial         |-> countStatus(components, "partial"),
                                  unsupported     |-> countStatus(components, "unsupported")]]
    /\ pc' = "done"
    /\ UNCHANGED <<figmaData, components, frameCount, stack, tree, others, running, client>>

Next ==
    \/ AnalyzeCall
    \/ TraverseEnter
    \/ TraverseThrow
    \/ TraverseChild
    \/ TraverseReturn
    \/ AnalyzeReturn

Spec == Init /\ [][Next]_vars

-----------------------------------------------------------------------------
(* Several requests in flight.  A handler of routes.ts parses or imports   *)
(* its own figmaData and calls analyzeFigmaComponents with it.  The call   *)
(* has no await inside, so it runs from its first statement to its return  *)
(* without another handler in between; handlers take turns only before the *)
(* call and after it.  The locals components, frameCount and the           *)
(* activations exist during a call only: between calls the variables keep  *)
(* what the last call left, and AnalyzeCall makes them anew.               *)

\* what the running handler holds across an await
Context == [figmaData |-> figmaData, pc |-> pc, result |-> result, tree |-> tree]

Received(data) ==
    [figmaData |-> data, pc |-> "idle", result |-> NoResult, tree |-> data.document]

\* the bodies of the requests in flight
RequestInputs ==
    {[document |-> Relabel(d, "")] :
        d \in {CarouselDocument, TextDocument, [children |-> <<[id |-> "", type |-> "FRAME"]>>]}}

InitRequests ==
    /\ running = 1
    /\ figmaData \in RequestInputs
    /\ pc = "idle"
    /\ components = <<>>
    /\ frameCount = 0
    /\ stack = <<>>
    /\ result = NoResult
    /\ tree = figmaData.document
    /\ others \in [2..MaxRequests -> {Received(d) : d \in RequestInputs}]
    /\ client = ClientStart

Switch_sharedResult(i) ==
    /\ pc \in {"idle", "done", "failed"}
    /\ i \in DOMAIN others
    /\ others' = [j \in (DOMAIN others \ {i}) \cup {running} |->
                    IF j = running THEN Context ELSE others[j]]
    /\ running' = i
    /\ figmaData' = others[i].figmaData
    /\ pc' = others[i].pc
    /\ tree' = others[i].tree
    /\ UNCHANGED <<result, components, frameCount, stack, client>>

\* the running handler waits and the handler of request i goes on
Switch(i) ==
    /\ pc \in {"idle", "done", "failed"}
    /\ i \in DOMAIN others
    /\ others' = [j \in (DOMAIN others \ {i}) \cup {running} |->
                    IF j = running THEN Context ELSE others[j]]
    /\ running' = i
    /\ figmaData' = others[i].figmaData
    /\ pc' = others[i].pc
    /\ result' = others[i].result
    /\ tree' = others[i].tree
    /\ UNCHANGED <<components, frameCount, stack, client>>

NextRequests ==
    \/ Next
    \/ \E i \in DOMAIN others : Switch(i)

SpecRequests == InitRequests /\ [][NextRequests]_vars

-----------------------------------------------------------------------------
(* The handlers of ImportStep, AnalyzeStep, ConvertStep and ExportStep.  A  *)
(* handler runs to its await, where its run is kept in client.runs, and    *)
(* runs on from there when the response has come.                           *)

server == <<figmaData, pc, components, frameCount, stack, result, tree, others, running>>

without(seq, i) == [j \in 1..(Len(seq) - 1) |-> IF j < i THEN seq[j] ELSE seq[j + 1]]

\* the runs once the step component is replaced: the useState setters they
\* hold belong to a component that is gone
unmounted(runs) == [i \in DOMAIN runs |-> [runs[i] EXCEPT !.mounted = FALSE]]

\* design.components.find(c => c.figmaId === id)
findComponent(design, id) ==
    LET hits == {i \in 1..Len(design.components) : design.components[i].figmaId = id}
    IN  design.components[CHOOSE i \in hits : \A j \in hits : i <= j]

\* the two effects of ExportStep after a selection: the first selects the
\* first component when none is selected, the second looks the selected
\* component up and calls fetchComponentCode, which runs to its await
exportEffects(c) ==
    LET id == IF c.selectedComponentId = "" /\ c.design # NoDesign /\ Len(c.design.components) > 0
              THEN c.design.components[1].figmaId
              ELSE c.selectedComponentId
    IN  IF id # "" /\ c.design # NoDesign
           /\ \E i \in 1..Len(c.design.components) : c.design.components[i].figmaId = id
        THEN [c EXCEPT !.selectedComponentId = id,
                       !.selectedComponent = findComponent(c.design, id),
                       !.runs = Append(@, Run("fetchComponentCode", c.design.fileKey, id))]
        ELSE [c EXCEPT !.selectedComponentId = id]

\* setCurrentStep(step) and the render after it: HomePage shows the
\* component of the new step; ImportStep and ExportStep start with their
\* useState defaults, and ExportStep runs its effects
setCurrentStep(c, step) ==
    IF step = c.currentStep THEN c
    ELSE LET shown == [c EXCEPT !.currentStep = step,
                                !.isLoading = FALSE,
                                !.selectedComponentId = "",
                                !.selectedComponent = NoComponent,
                                !.generatedCode = NoCode,
                                !.runs = unmounted(@)]
         IN  IF step = "export" THEN exportEffects(shown) ELSE shown

handleFigmaUrlChange ==
    /\ client.currentStep = "import"
    /\ client.uploadMethod = "link"
    /\ \E url \in FigmaUrls : client' = [client EXCEPT !.figmaUrl = url]
    /\ UNCHANGED server

setUploadMethod ==
    /\ client.currentStep = "import"
    /\ \E method \in {"link", "file"} : client' = [client EXCEPT !.uploadMethod = method]
    /\ UNCHANGED server

\* the Import button, disabled while isLoading
handleImportClick ==
    /\ client.currentStep = "import"
    /\ client.uploadMethod = "link"
    /\ ~client.isLoading
    /\ IF client.figmaUrl = ""
       THEN client' = [client EXCEPT !.toast = "Error"]
       ELSE /\ Len(client.runs) < MaxInFlight
            /\ client' = [client EXCEPT !.isLoading = TRUE,
                                        !.isProcessing = TRUE,
                                        !.runs = Append(@, Run("handleImportClick", "", ""))]
    /\ UNCHANGED server

\* the Try Demo button, disabled while isLoading
handleDemoClick ==
    /\ client.currentStep = "import"
    /\ ~client.isLoading
    /\ Len(client.runs) < MaxInFlight
    /\ client' = [client EXCEPT !.isLoading = TRUE,
                                !.isProcessing = TRUE,
                                !.runs = Append(@, Run("handleDemoClick", "", ""))]
    /\ UNCHANGED server

\* a file chosen in the dialog that the Browse Files button, disabled while
\* isLoading, opens
handleFileInputChange ==
    /\ client.currentStep = "import"
    /\ client.uploadMethod = "file"
    /\ ~client.isLoading
    /\ Len(client.runs) < MaxInFlight
    /\ client' = [client EXCEPT !.isLoading = TRUE,
                                !.runs = Append(@, Run("handleFileInputChange", "", ""))]
    /\ UNCHANGED server

importHandlers == {"handleImportClick", "handleDemoClick", "handleFileInputChange"}

\* the JSON the request of the handler is answered with
received(handler) ==
    CASE handler = "handleImportClick"     -> ImportedDesign
      [] handler = "handleDemoClick"       -> DemoDesign
      [] handler = "handleFileInputChange" -> UploadedDesign

errorTitle(handler) ==
    CASE handler = "handleImportClick"     -> "Import Error"
      [] handler = "handleDemoClick"       -> "Demo Error"
      [] handler = "handleFileInputChange" -> "Error uploading file"
      [] handler = "handleConvertClick"    -> "Conversion Error"
      [] handler = "fetchComponentCode"    -> "Error"

\* the finally block of the three handlers of ImportStep: setIsLoading
\* reaches the component only while it is mounted; handleFileInputChange
\* does not touch isProcessing
importFinally(c, run) ==
    [c EXCEPT !.isLoading = IF run.mounted /\ c.currentStep = "import" THEN FALSE ELSE @,
              !.isProcessing = IF run.handler = "handleFileInputChange" THEN @ ELSE FALSE]

importResumed_advanceOnError(c, run, ok) ==
    LET rest == [c EXCEPT !.runs = without(@, CHOOSE i \in DOMAIN c.runs : c.runs[i] = run)]
    IN  IF ok
        THEN importFinally(setCurrentStep([rest EXCEPT !.design = received(run.handler)], "analyze"), run)
        ELSE importFinally(setCurrentStep([rest EXCEPT !.toast = errorTitle(run.handler)], "analyze"), run)

\* a handler of ImportStep from its await on: with the response, setDesign
\* and setCurrentStep('analyze'); with an error thrown by the request, by
\* the !response.ok test or by response.json(), the toast of the catch
\* block; then the finally block
importResumed(c, run, ok) ==
    LET rest == [c EXCEPT !.runs = without(@, CHOOSE i \in DOMAIN c.runs : c.runs[i] = run)]
    IN  IF ok
        THEN importFinally(setCurrentStep([rest EXCEPT !.design = received(run.handler)], "analyze"), run)
        ELSE importFinally([rest EXCEPT !.toast = errorTitle(run.handler)], run)

ImportResponse ==
    /\ \E i \in DOMAIN client.runs, ok \in BOOLEAN :
            /\ client.runs[i].handler \in importHandlers
            /\ client' = importResumed(client, client.runs[i], ok)
    /\ UNCHANGED server

\* AnalyzeStep: Back
AnalyzeBackClick ==
    /\ client.currentStep = "analyze"
    /\ client' = setCurrentStep(client, "import")
    /\ UNCHANGED server

\* AnalyzeStep: Continue, disabled while isProcessing or without a design
handleContinueClick ==
    /\ client.currentStep = "analyze"
    /\ ~client.isProcessing
    /\ client.design # NoDesign
    /\ client' = setCurrentStep(client, "convert")
    /\ UNCHANGED server

\* ConvertStep: Back
ConvertBackClick ==
    /\ client.currentStep = "convert"
    /\ client' = setCurrentStep(client, "analyze")
    /\ UNCHANGED server

\* ConvertStep: Convert Components, shown enabled whenever there is a design
handleConvertClick ==
    /\ client.currentStep = "convert"
    /\ client.design # NoDesign
    /\ Len(client.runs) < MaxInFlight
    /\ client' = [client EXCEPT !.isProcessing = TRUE,
                                !.runs = Append(@, Run("handleConvertClick", client.design.fileKey, ""))]
    /\ UNCHANGED server

\* handleConvertClick from its await on
convertResumed(c, run, ok) ==
    LET rest == [c EXCEPT !.runs = without(@, CHOOSE i \in DOMAIN c.runs : c.runs[i] = run)]
        tried == IF ok THEN setCurrentStep(rest, "export")
                 ELSE [rest EXCEPT !.toast = errorTitle(run.handler)]
    IN  [tried EXCEPT !.isProcessing = FALSE]

ConvertResponse ==
    /\ \E i \in DOMAIN client.runs, ok \in BOOLEAN :
            /\ client.runs[i].handler = "handleConvertClick"
            /\ client' = convertResumed(client, client.runs[i], ok)
    /\ UNCHANGED server

\* ExportStep: Back
ExportBackClick ==
    /\ client.currentStep = "export"
    /\ client' = setCurrentStep(client, "convert")
    /\ UNCHANGED server

\* ExportStep: onValueChange of the component select, and the effect that
\* follows the new selectedComponentId
setSelectedComponentId ==
    /\ client.currentStep = "export"
    /\ Len(client.runs) < MaxInFlight
    /\ \E i \in 1..Len(client.design.components) :
            /\ client.design.components[i].figmaId # client.selectedComponentId
            /\ client' = exportEffects([client EXCEPT !.selectedComponentId =
                                                        client.design.components[i].figmaId])
    /\ UNCHANGED server

\* fetchComponentCode from its await on: setGeneratedCode(data), which
\* reaches ExportStep only while it is mounted, or the toast of the catch
fetchResumed(c, run, ok) ==
    LET rest == [c EXCEPT !.runs = without(@, CHOOSE i \in DOMAIN c.runs : c.runs[i] = run)]
    IN  IF ok
        THEN [rest EXCEPT !.generatedCode =
                            IF run.mounted THEN componentCode(run.fileKey, run.componentId) ELSE @]
        ELSE [rest EXCEPT !.toast = errorTitle(run.handler)]

ComponentCodeResponse ==
    /\ \E i \in DOMAIN client.runs, ok \in BOOLEAN :
            /\ client.runs[i].handler = "fetchComponentCode"
            /\ client' = fetchResumed(client, client.runs[i], ok)
    /\ UNCHANGED server

InitClient ==
    /\ figmaData = [document |-> Relabel(CarouselDocument, "")]
    /\ pc = "idle"
    /\ components = <<>>
    /\ frameCount = 0
    /\ stack = <<>>
    /\ result = NoResult
    /\ tree = figmaData.document
    /\ others = <<>>
    /\ running = 1
    /\ client = ClientStart

NextClient ==
    \/ handleFigmaUrlChange
    \/ setUploadMethod
    \/ handleImportClick
    \/ handleDemoClick
    \/ handleFileInputChange
    \/ ImportResponse
    \/ AnalyzeBackClick
    \/ handleContinueClick
    \/ ConvertBackClick
    \/ handleConvertClick
    \/ ConvertResponse
    \/ ExportBackClick
    \/ setSelectedComponentId
    \/ ComponentCodeResponse

SpecClient == InitClient /\ [][NextClient]_vars

-----------------------------------------------------------------------------
(* The statements checked.  Each is written from the wording of the        *)
(* specification, with its own reading of the rules, and compared with     *)
(* what the calls above produce.                                           *)

Done == pc = "done"

\* traverseFigmaNodes has just run its body on the node of the innermost
\* activation
Entered == pc = "traverse" /\ stack # <<>> /\ Top.next = 1

Last == components[Len(components)]

\* the body just run has appended the component of its node
Emitted == /\ Entered
           /\ Len(components) > 0
           /\ Last.figmaId = Get(Top.node, "id")

RECURSIVE CountKind(_, _)
\* the number of nodes of the subtree whose kind is in kinds
CountKind(node, kinds) ==
    LET below == [i \in 1..Len(childrenOf(node)) |-> CountKind(childrenOf(node)[i], kinds)]
        SumTo[i \in 0..Len(below)] == IF i = 0 THEN 0 ELSE SumTo[i - 1] + below[i]
    IN  (IF Get(node, "type") \in kinds THEN 1 ELSE 0) + SumTo[Len(below)]

NamedTypes == {"Button", "Input", "Card", "Checkbox", "Radio",
               "Select", "DatePicker", "Tabs", "Table"}

CandidateKeywords == {"button", "input", "field", "card", "checkbox", "select",
                      "date", "table", "tab", "carousel"}

HasKeyword(node) ==
    /\ Has(node, "name")
    /\ \E k \in CandidateKeywords : includes(toLowerCase(node.name), k)

\* the kinds of node that are candidates
CandidateKind(node) ==
    \/ Get(node, "type") \in {"INSTANCE", "COMPONENT"}
    \/ Get(node, "type") = "FRAME" /\ HasKeyword(node)

InCatalog(node) ==
    /\ Has(node, "componentId")
    /\ \E i \in 1..Len(COMPONENT_TYPE_IDS) :
            arrayIncludes(COMPONENT_TYPE_IDS[i].ids, node.componentId)

\* the name rules in the order of the specification; "none" when no rule
\* matches
NameRule(name) ==
    LET n == toLowerCase(name)
        has(k) == includes(n, k)
    IN  IF has("button") THEN "Button"
        ELSE IF has("input") \/ has("field") THEN "Input"
        ELSE IF has("card") THEN "Card"
        ELSE IF has("check") THEN "Checkbox"
        ELSE IF has("select") \/ has("dropdown") \/ has("combo") THEN "Select"
        ELSE IF has("date") \/ has("calendar") THEN "DatePicker"
        ELSE IF has("tab") /\ ~has("table") THEN "Tabs"
        ELSE IF has("table") THEN "Table"
        ELSE IF has("carousel") \/ has("slider") THEN "Carousel"
        ELSE "none"

\* the structural tests as the specification words them
ShadowVisible(node) ==
    /\ Has(node, "effects")
    /\ \E i \in 1..Len(node.effects) :
            node.effects[i].type = "DROP_SHADOW" /\ isVisible(node.effects[i])

ButtonLike(node) ==
    /\ Has(node, "cornerRadius") /\ node.cornerRadius > 0
    /\ \/ includes(toLowerCase(node.name), "click")
       \/ includes(toLowerCase(node.name), "action")
       \/ /\ Has(node, "absoluteBoundingBox")
          /\ node.absoluteBoundingBox.width < 300
          /\ node.absoluteBoundingBox.height < 100

InputLike(node) ==
    /\ \E i \in 1..Len(childrenOf(node)) :
            LET child == childrenOf(node)[i]
            IN  /\ child.type = "TEXT"
                /\ \/ includes(toLowerCase(child.name), "label")
                   \/ (Has(child, "characters") /\ Len(child.characters) < 30)
    /\ \E i \in 1..Len(childrenOf(node)) :
            LET child == childrenOf(node)[i]
            IN  \/ child.type = "RECTANGLE"
                \/ child.type = "FRAME" /\ includes(toLowerCase(child.name), "input")

CardLike(node) ==
    /\ node.type \in {"FRAME", "GROUP"}
    /\ ShadowVisible(node)
    /\ Len(childrenOf(node)) > 1
    /\ \E i \in 1..Len(childrenOf(node)) : childrenOf(node)[i].type = "TEXT"

\* C1: in every result, stats.totalComponents is the length of components
\* and supported + partial + unsupported is stats.totalComponents.
C1_StatsConsistent ==
    Done =>
        /\ result.stats.totalComponents = Len(result.components)
        /\ result.stats.supported + result.stats.partial + result.stats.unsupported
              = result.stats.totalComponents

C1_Witness ==
    /\ Done
    /\ result.stats.supported > 0
    /\ result.stats.partial > 0
    /\ result.stats.unsupported > 0

\* C2: in every result, stats.frames is the number of nodes of the tree
\* whose kind is FRAME or GROUP.
C2_FramesCounted ==
    Done => result.stats.frames = CountKind(figmaData.document, {"FRAME", "GROUP"})

\* C3: the supportStatus of every emitted component is decided by its type:
\* Button, Input, Card, Checkbox, Radio are supported; Select, DatePicker,
\* Tabs, Table are partial; every other type is unsupported.
C3_StatusByType ==
    \A i \in 1..Len(components) :
        components[i].supportStatus =
            IF components[i].type \in {"Button", "Input", "Card", "Checkbox", "Radio"}
            THEN "supported"
            ELSE IF components[i].type \in {"Select", "DatePicker", "Tabs", "Table"}
            THEN "partial"
            ELSE "unsupported"

C3_Witness ==
    /\ Emitted
    /\ Last.type = "Radio"
    /\ Last.supportStatus = "supported"

\* C4: an emitted component has a mapped target (angularComponent) exactly
\* when its type is one of the nine named types; Custom and Carousel
\* components have none.
C4_TargetIffNamedType ==
    \A i \in 1..Len(components) :
        Has(components[i], "angularComponent") <=> components[i].type \in NamedTypes

C4_Witness ==
    /\ Done
    /\ \E i \in 1..Len(components) : components[i].type = "Custom"
    /\ \E i \in 1..Len(components) : Has(components[i], "angularComponent")

\* C5 as stated: a node is emitted exactly when its kind is INSTANCE or
\* COMPONENT, or its kind is FRAME or GROUP and its lowercase name contains
\* one of the keywords; a GROUP with a keyword is emitted.
C5_CandidateFrameOrGroup ==
    Entered =>
        (Emitted <=>
            \/ Get(Top.node, "type") \in {"INSTANCE", "COMPONENT"}
            \/ Get(Top.node, "type") \in {"FRAME", "GROUP"} /\ HasKeyword(Top.node))

\* C5 as amended: a node is emitted exactly when its kind is INSTANCE or
\* COMPONENT, or its kind is FRAME and its lowercase name contains one of
\* the keywords; a GROUP is never emitted, whatever its name.
C5_CandidateFrameOnly ==
    Entered =>
        (Emitted <=>
            \/ Get(Top.node, "type") \in {"INSTANCE", "COMPONENT"}
            \/ Get(Top.node, "type") = "FRAME" /\ HasKeyword(Top.node))

C5_Witness ==
    /\ Entered
    /\ Get(Top.node, "type") = "GROUP"
    /\ HasKeyword(Top.node)
    /\ ~Emitted

\* C6: a candidate whose componentId is in the catalog list of a type gets
\* that type, whatever its name contains.
C6_CatalogIdFirst ==
    Emitted =>
        \A i \in 1..Len(COMPONENT_TYPE_IDS) :
            (/\ Has(Top.node, "componentId")
             /\ arrayIncludes(COMPONENT_TYPE_IDS[i].ids, Top.node.componentId))
            => Last.type = COMPONENT_TYPE_IDS[i].type

C6_Witness ==
    /\ Emitted
    /\ Get(Top.node, "componentId") = "button-primary"
    /\ includes(toLowerCase(Top.node.name), "input")
    /\ Last.type = "Button"

\* C7: a candidate with no catalog id whose name matches a name rule gets
\* the type of the first matching rule in the order button, input/field,
\* card, check, select/dropdown/combo, date/calendar, tab-and-not-table,
\* table, carousel/slider; "Tab Button" is Button, and a name containing
\* "table" is never Tabs.
C7_FirstNameRule ==
    (Emitted /\ ~InCatalog(Top.node)) =>
        /\ NameRule(Top.node.name) # "none" => Last.type = NameRule(Top.node.name)
        /\ Top.node.name = "Tab Button" => Last.type = "Button"
        /\ includes(toLowerCase(Top.node.name), "table") => Last.type # "Tabs"

C7_Witness ==
    /\ Emitted
    /\ ~Has(Top.node, "componentId")
    /\ Top.node.name = "Data Table"
    /\ Last.type = "Table"

\* C8: the type of every component is one of Button, Input, Card, Checkbox,
\* Radio, Select, DatePicker, Tabs, Table, Custom.
C8_ClosedTypeSet ==
    \A i \in 1..Len(components) : components[i].type \in NamedTypes \cup {"Custom"}

\* C9: a candidate with no catalog id whose first matching name rule is the
\* carousel/slider rule is emitted unsupported, without a mapped target and
\* with an empty property bag.
C9_CarouselUnsupported ==
    (/\ Entered
     /\ CandidateKind(Top.node)
     /\ ~InCatalog(Top.node)
     /\ NameRule(Top.node.name) = "Carousel")
    => /\ Emitted
       /\ Last.supportStatus = "unsupported"
       /\ ~Has(Last, "angularComponent")
       /\ DOMAIN Last.properties = {}

C9_Witness ==
    /\ Emitted
    /\ Top.node.type = "FRAME"
    /\ Top.node.name = "Custom Carousel"
    /\ Len(childrenOf(Top.node)) = 2
    /\ \A i \in 1..2 : Top.node.children[i].type = "RECTANGLE"
    /\ Last.supportStatus = "unsupported"

\* a node with no name keyword, no component id, no drop-shadow and no
\* button-like, input-like or card-like structure
Plain(node) ==
    /\ NameRule(node.name) = "none"
    /\ ~Has(node, "componentId")
    /\ ~ShadowVisible(node)
    /\ ~ButtonLike(node)
    /\ ~InputLike(node)
    /\ ~CardLike(node)

EmittedCustom ==
    /\ Emitted
    /\ Last.type = "Custom"
    /\ Last.supportStatus = "unsupported"
    /\ DOMAIN Last.properties = {}

\* C10 as stated: a frame with no name keyword, no component id, no
\* drop-shadow and no button-like, input-like or card-like structure is
\* emitted as Custom, unsupported, with an empty property bag.
C10_PlainFrameCustom ==
    (Entered /\ Get(Top.node, "type") = "FRAME" /\ Plain(Top.node)) => EmittedCustom

\* C10 as amended: such a node is emitted as Custom, unsupported, with an
\* empty property bag when its kind is INSTANCE or COMPONENT; a frame with
\* no name keyword is not emitted at all.
C10_PlainInstanceCustom ==
    /\ (Entered /\ Get(Top.node, "type") \in {"INSTANCE", "COMPONENT"} /\ Plain(Top.node))
            => EmittedCustom
    /\ (Entered /\ Get(Top.node, "type") = "FRAME" /\ Plain(Top.node)) => ~Emitted

C10_Witness ==
    /\ Emitted
    /\ Top.node.type = "COMPONENT"
    /\ Top.node.name = "Click Me"
    /\ Has(Top.node, "absoluteBoundingBox")
    /\ Plain(Top.node)
    /\ Last.type = "Custom"

\* the children list of a node as the tree gives it
Kids(node) == IF Has(node, "children") THEN node.children ELSE <<>>

RECURSIVE PreOrder(_)
\* the nodes of the subtree, each node before the nodes of its subtrees and
\* the subtree of an earlier sibling before that of a later one
PreOrder(node) ==
    LET kids == Kids(node)
        Below[i \in 0..Len(kids)] ==
            IF i = 0 THEN <<>> ELSE Below[i - 1] \o PreOrder(kids[i])
    IN  <<node>> \o Below[Len(kids)]

\* the nodes of the tree below the document, in pre-order
TreeNodes == LET all == PreOrder(figmaData.document) IN SubSeq(all, 2, Len(all))

\* the place of the node with this id in the pre-order of the tree
Place(id) == CHOOSE k \in 1..Len(TreeNodes) : Get(TreeNodes[k], "id") = id

IsPrefix(p, s) == Len(p) <= Len(s) /\ SubSeq(s, 1, Len(p)) = p

\* C11: the entries of components follow the pre-order of the tree: an
\* entry's node comes before the node of every later entry, so a candidate
\* precedes the candidates of its subtree and the entries of an earlier
\* sibling's subtree precede those of a later sibling; a candidate nested in
\* another candidate has an entry of its own.
C11_PreOrder ==
    Done =>
        /\ \A i, j \in 1..Len(result.components) :
                i < j => Place(result.components[i].figmaId)
                            < Place(result.components[j].figmaId)
        /\ \A k \in 1..Len(TreeNodes) :
                (/\ CandidateKind(TreeNodes[k])
                 /\ \E m \in 1..Len(TreeNodes) :
                        /\ CandidateKind(TreeNodes[m])
                        /\ IsPrefix(TreeNodes[m].id \o ":", TreeNodes[k].id))
                => \E i \in 1..Len(result.components) :
                        result.components[i].figmaId = TreeNodes[k].id

C11_Witness ==
    /\ Done
    /\ \E i, j \in 1..Len(result.components) :
            /\ i < j
            /\ IsPrefix(result.components[i].figmaId \o ":", result.components[j].figmaId)
    /\ \E i, j \in 1..Len(result.components) :
            /\ i < j
            /\ ~IsPrefix(result.components[i].figmaId \o ":", result.components[j].figmaId)

\* C12: every candidate node of the tree, at any depth and whatever its
\* ancestors are, has exactly one entry in components, and components has as
\* many entries as the tree has candidate nodes.
C12_OneEntryPerCandidate ==
    Done =>
        LET candidates == {k \in 1..Len(TreeNodes) : CandidateKind(TreeNodes[k])}
        IN  /\ Len(result.components) = Cardinality(candidates)
            /\ \A k \in candidates :
                    Cardinality({i \in 1..Len(result.components) :
                                    result.components[i].figmaId = TreeNodes[k].id}) = 1

C12_Witness ==
    /\ Done
    /\ \E k, m \in 1..Len(TreeNodes) :
            /\ CandidateKind(TreeNodes[k])
            /\ CandidateKind(TreeNodes[m])
            /\ IsPrefix(TreeNodes[m].id \o ":", TreeNodes[k].id)
    /\ \E k, m \in 1..Len(TreeNodes) :
            /\ CandidateKind(TreeNodes[k])
            /\ ~CandidateKind(TreeNodes[m])
            /\ IsPrefix(TreeNodes[m].id \o ":", TreeNodes[k].id)

\* C13: the call leaves the input tree as it was: every node keeps its
\* fields and every children list its order, also when the title and
\* content fallbacks have sorted the text children of a card.
C13_InputNotMutated ==
    Done => tree = figmaData.document

C13_Witness ==
    /\ Done
    /\ tree = figmaData.document
    /\ \E i \in 1..Len(result.components) :
            /\ result.components[i].type = "Card"
            /\ Get(result.components[i].properties, "title") = "Profile"
            /\ Get(result.components[i].properties, "content")
                    = "This is the card content area with description text."
    /\ tree.children[1].children[1].characters = "Short note"

\* the requests in flight, the running one included
AllCalls == {Context} \cup {others[j] : j \in DOMAIN others}

RECURSIVE collect(_)
\* the components of the subtree, each before those of its subtrees
collect(node) ==
    LET kids == Kids(node)
        Below[i \in 0..Len(kids)] ==
            IF i = 0 THEN <<>> ELSE Below[i - 1] \o collect(kids[i])
    IN  (IF isComponentCandidate(node) THEN <<component(node)>> ELSE <<>>) \o Below[Len(kids)]

\* what analyzeFigmaComponents gives for this argument when it is the only
\* call ever made
analyzeAlone(data) ==
    LET nodes == PreOrder(data.document)
        comps == collect(data.document)
    IN  IF \E k \in 1..Len(nodes) : throwsTypeError(nodes[k]) THEN analysisError
        ELSE [fileKey    |-> IF truthyString(Get(data, "id")) THEN data.id ELSE "figma-file-1",
              fileName   |-> IF truthyString(Get(data, "name")) THEN data.name
                             ELSE "Design System",
              components |-> comps,
              stats      |-> [totalComponents |-> Len(comps),
                              frames          |-> 0,
                              supported       |-> countStatus(comps, "supported"),
                              partial         |-> countStatus(comps, "partial"),
                              unsupported     |-> countStatus(comps, "unsupported")]]

\* C14: two analyses of the same tree give the same result (fileKey,
\* fileName, components and stats), whatever other analyses ran before,
\* between or after them.
C14_SameTreeSameResult ==
    \A c, d \in AllCalls :
        (c.pc = "done" /\ d.pc = "done" /\ c.figmaData = d.figmaData)
            => c.result = d.result

C14_Witness ==
    /\ Done
    /\ Len(result.components) > 0
    /\ \E j \in DOMAIN others :
            /\ others[j].pc = "done"
            /\ others[j].figmaData = figmaData
            /\ others[j].result = result
    /\ \E j \in DOMAIN others :
            /\ others[j].pc = "done"
            /\ others[j].figmaData # figmaData

\* C15: with several requests in flight, every call that has returned gave
\* the result it gives when it is the only call: no call reads or writes
\* the component list, the frame counter or the result of another.
C15_AsIfAlone ==
    \A c \in AllCalls :
        c.pc \in {"done", "failed"} => c.result = analyzeAlone(c.figmaData)

C15_Witness ==
    /\ Done
    /\ Len(result.components) > 0
    /\ \E j \in DOMAIN others : others[j].pc = "idle"
    /\ \E j \in DOMAIN others :
            /\ others[j].pc = "done"
            /\ others[j].figmaData # figmaData
            /\ Len(others[j].result.components) > 0

\* C16: when a node of the tree has no name or no type, the call fails: it
\* never returns a result, whether the node is a candidate or not.
C16_MalformedFails ==
    (\E k \in 1..Len(TreeNodes) :
        ~Has(TreeNodes[k], "name") \/ ~Has(TreeNodes[k], "type"))
    => ~Done

\* C17: a candidate with no catalog id and no matching name rule is Button
\* when it is button-like, else Input when input-like, else Card when
\* card-like, else Custom; a candidate with a catalog id or a matching name
\* rule keeps the type of that match whatever its structure: a button-like
\* node whose name contains "card" is Card.
C17_StructuralFallback ==
    Emitted =>
        /\ (~InCatalog(Top.node) /\ NameRule(Top.node.name) = "none")
                => Last.type = IF ButtonLike(Top.node) THEN "Button"
                               ELSE IF InputLike(Top.node) THEN "Input"
                               ELSE IF CardLike(Top.node) THEN "Card"
                               ELSE "Custom"
        /\ (~InCatalog(Top.node) /\ NameRule(Top.node.name) # "none")
                => Last.type = NameRule(Top.node.name)
        /\ InCatalog(Top.node)
                => \E i \in 1..Len(COMPONENT_TYPE_IDS) :
                        /\ arrayIncludes(COMPONENT_TYPE_IDS[i].ids, Top.node.componentId)
                        /\ Last.type = COMPONENT_TYPE_IDS[i].type

C17_Witness ==
    /\ Done
    /\ Len(result.components) = 3
    /\ LET nodeOf(i) == TreeNodes[Place(result.components[i].figmaId)]
           typeOf(i) == result.components[i].type
       IN  /\ \A i \in 1..3 : ~InCatalog(nodeOf(i))
           /\ NameRule(nodeOf(1).name) = "none"
           /\ ButtonLike(nodeOf(1)) /\ InputLike(nodeOf(1)) /\ typeOf(1) = "Button"
           /\ NameRule(nodeOf(2).name) = "none"
           /\ ~ButtonLike(nodeOf(2)) /\ InputLike(nodeOf(2)) /\ typeOf(2) = "Input"
           /\ nodeOf(3).name = "Info Card"
           /\ ButtonLike(nodeOf(3)) /\ typeOf(3) = "Card"

\* the first element of the list that is not hidden; 0 when there is none
FirstShown(list) ==
    LET shown == {i \in 1..Len(list) : isVisible(list[i])}
    IN  IF shown = {} THEN 0 ELSE CHOOSE i \in shown : \A j \in shown : i <= j

\* the first drop shadow of the list that is not hidden
FirstShadow(list) ==
    LET shown == {i \in 1..Len(list) : list[i].type = "DROP_SHADOW" /\ isVisible(list[i])}
    IN  list[CHOOSE i \in shown : \A j \in shown : i <= j]

\* the integer nearest to 255 * c for a channel c in hundredths, the upper
\* one of two equally near
Rounded(c) == CHOOSE n \in 0..255 : 100 * n - 50 <= 255 * c /\ 255 * c < 100 * n + 50

RoundedColor(color) == [r |-> Rounded(color.r), g |-> Rounded(color.g), b |-> Rounded(color.b)]

Unstyled(node) ==
    \A k \in {"absoluteBoundingBox", "cornerRadius", "paddingLeft", "paddingRight",
               "paddingTop", "paddingBottom", "style", "fills", "strokes", "effects"} :
        ~Has(node, k)

\* C18: the styles of a node with no bounding box, radius, padding, style,
\* fills, strokes or effects have no key; boxShadow is there exactly when
\* the node has a drop shadow that is not hidden, and comes from the first
\* such effect: offset and radius are the effect's, 0 where it has none,
\* and the colour is {r: 0, g: 0, b: 0, a: 0.25} when the effect has no
\* colour and the effect's own colour otherwise.
C18_ShadowStyle ==
    Emitted =>
        /\ Unstyled(Top.node) => DOMAIN Last.styles = {}
        /\ Has(Last.styles, "boxShadow") <=> ShadowVisible(Top.node)
        /\ ShadowVisible(Top.node) =>
              LET effect == FirstShadow(Top.node.effects)
                  shadow == Last.styles.boxShadow
                  own(obj, k) == IF Has(obj, k) THEN obj[k] ELSE 0
              IN  /\ shadow.offsetX = IF Has(effect, "offset") THEN own(effect.offset, "x") ELSE 0
                  /\ shadow.offsetY = IF Has(effect, "offset") THEN own(effect.offset, "y") ELSE 0
                  /\ shadow.radius = own(effect, "radius")
                  /\ ~Has(effect, "color") => shadow.color = [r |-> 0, g |-> 0, b |-> 0, a |-> 25]
                  /\ Has(effect, "color") =>
                        /\ [k \in {"r", "g", "b"} |-> shadow.color[k]]
                                = RoundedColor(effect.color)
                        /\ effect.color.a # 0 => shadow.color.a = effect.color.a

C18_Witness ==
    /\ Done
    /\ Len(result.components) = 4
    /\ tree.children[2].effects = <<ConcealedShadow, BareShadow>>
    /\ tree.children[3].effects = <<InnerShadow, PartShadow, FullShadow>>
    /\ DOMAIN result.components[1].styles = {}
    /\ result.components[2].styles.boxShadow
            = [offsetX |-> 0, offsetY |-> 0, radius |-> 0,
               color |-> [r |-> 0, g |-> 0, b |-> 0, a |-> 25]]
    /\ result.components[3].styles.boxShadow.offsetX = 1
    /\ result.components[3].styles.boxShadow.offsetY = 0
    /\ result.components[3].styles.boxShadow.radius = 6

\* C19: backgroundColor comes from the first fill that is not hidden, each
\* channel the rounding of 255 times the channel, within 0..255; the fills
\* after it change nothing; borderColor comes from the strokes by the same
\* rule.
C19_FirstShownPaint ==
    Emitted =>
        LET paint(key, list) ==
                LET first == IF Has(Top.node, list) THEN FirstShown(Top.node[list]) ELSE 0
                    coloured == first # 0 /\ Has(Top.node[list][first], "color")
                IN  /\ Has(Last.styles, key) <=> coloured
                    /\ coloured =>
                          /\ Last.styles[key] = RoundedColor(Top.node[list][first].color)
                          /\ \A k \in {"r", "g", "b"} : Last.styles[key][k] \in 0..255
        IN  paint("backgroundColor", "fills") /\ paint("borderColor", "strokes")

C19_Witness ==
    /\ Done
    /\ Len(result.components) = 4
    /\ tree.children[4].fills = <<HiddenFill, HalfFill, PlainFill>>
    /\ tree.children[4].strokes = <<HiddenStroke, PlainStroke>>
    /\ result.components[4].styles.backgroundColor = [r |-> 230, g |-> 140, b |-> 3]
    /\ result.components[4].styles.borderColor = [r |-> 204, g |-> 204, b |-> 204]

\* the variant of a button as the specification words it
VariantRule(node) ==
    LET keysIn(s) == {i \in 1..Len(BUTTON_VARIANTS) : includes(s, BUTTON_VARIANTS[i].key)}
        firstOf(S) == BUTTON_VARIANTS[CHOOSE i \in S : \A j \in S : i <= j].value
        byId == IF Has(node, "componentId") THEN keysIn(node.componentId) ELSE {}
        byName == keysIn(toLowerCase(node.name))
        shownFill == Has(node, "fills") /\ \E i \in 1..Len(node.fills) : isVisible(node.fills[i])
        shownStroke == Has(node, "strokes")
                       /\ \E i \in 1..Len(node.strokes) : isVisible(node.strokes[i])
        faintFills == /\ Has(node, "fills")
                      /\ \A i \in 1..Len(node.fills) :
                            Has(node.fills[i], "opacity") /\ node.fills[i].opacity < 20
    IN  IF byId # {} THEN firstOf(byId)
        ELSE IF byName # {} THEN firstOf(byName)
        ELSE IF ShadowVisible(node) THEN "raised"
        ELSE IF shownStroke /\ (~shownFill \/ faintFills) THEN "stroked"
        ELSE IF shownFill THEN "flat"
        ELSE "basic"

\* C20: the variant of a Button is the first of: the catalog value whose
\* key is in its componentId; the catalog value whose key is in its
\* lowercase name; raised with a drop shadow that is not hidden; stroked
\* with a stroke that is not hidden and no fill or only faint fills; flat
\* with a fill that is not hidden, with or without an opacity; else basic.
C20_ButtonVariant ==
    (Emitted /\ Last.type = "Button")
        => Last.properties.variant = VariantRule(Top.node)

\* the colour of the first fill that is not hidden; <<>> when there is no
\* such fill or it has no colour
FirstFillColor(node) ==
    LET first == IF Has(node, "fills") THEN FirstShown(node.fills) ELSE 0
    IN  IF first # 0 /\ Has(node.fills[first], "color") THEN node.fills[first].color ELSE <<>>

\* the colour theme of a button as the specification words it
ThemeRule(node) ==
    LET n == toLowerCase(node.name)
        c == FirstFillColor(node)
    IN  IF includes(n, "primary") THEN "primary"
        ELSE IF includes(n, "accent") \/ includes(n, "secondary") THEN "accent"
        ELSE IF includes(n, "warn") \/ includes(n, "danger") \/ includes(n, "error") THEN "warn"
        ELSE IF c = <<>> THEN "primary"
        ELSE IF c.r > 70 /\ c.g < 30 /\ c.b < 30 THEN "warn"
        ELSE IF c.r < 30 /\ c.g < 50 /\ c.b > 70 THEN "primary"
        ELSE IF c.r > 70 /\ c.g > 50 /\ c.b < 30 THEN "accent"
        ELSE "primary"

\* C21: the color of a Button is primary when its lowercase name contains
\* "primary", else accent for "accent" or "secondary", else warn for "warn",
\* "danger" or "error"; otherwise the first fill decides: red-dominant is
\* warn, blue-dominant primary, red-and-green-dominant accent, anything
\* else primary.
C21_ColorTheme ==
    (Emitted /\ Last.type = "Button")
        => Last.properties.color = ThemeRule(Top.node)

\* the disabled test as the specification words it; the saturation
\* (max - min) / max is below 0.1 exactly when 10 * (max - min) < max, and
\* counts as 0 when max is 0
DisabledRule(node) ==
    LET c == FirstFillColor(node)
        max == max3(c.r, c.g, c.b)
        min == min3(c.r, c.g, c.b)
    IN  \/ includes(toLowerCase(node.name), "disabled")
        \/ Has(node, "opacity") /\ node.opacity < 50
        \/ c # <<>> /\ (max = 0 \/ 10 * (max - min) < max)

\* C22: a Button is disabled exactly when its name contains "disabled", or
\* its opacity is below 0.5, opacity 0 included, or the saturation of the
\* colour of its first fill that is not hidden is below 0.1.
C22_Disabled ==
    (Emitted /\ Last.type = "Button")
        => (Last.properties.disabled <=> DisabledRule(Top.node))

\* the text a role finds in the children of a node, as the specification
\* words it; null when it finds none
TextRule(node, role) ==
    LET kids == Kids(node)
        texts == {i \in 1..Len(kids) : kids[i].type = "TEXT"}
        named == {i \in texts : includes(toLowerCase(kids[i].name), toLowerCase(role))}
        least(S) == CHOOSE i \in S : \A j \in S : i <= j
        size(i) == IF Has(kids[i], "style") /\ Has(kids[i].style, "fontSize")
                   THEN kids[i].style.fontSize ELSE 0
        weight(i) == IF Has(kids[i], "style") /\ Has(kids[i].style, "fontWeight")
                     THEN kids[i].style.fontWeight ELSE 0
        long(i) == IF Has(kids[i], "characters") THEN Len(kids[i].characters) ELSE 0
        largest == {i \in texts : \A j \in texts :
                        size(j) < size(i) \/ (size(j) = size(i) /\ weight(j) <= weight(i))}
        longest == {i \in texts : \A j \in texts : long(j) <= long(i)}
        topLeft == {i \in texts :
                        \/ Has(kids[i], "y") /\ Has(node, "height")
                                /\ 10 * kids[i].y < 3 * node.height
                        \/ Has(kids[i], "x") /\ Has(node, "width")
                                /\ 10 * kids[i].x < 2 * node.width}
        text(i) == Get(kids[i], "characters")
    IN  IF named # {} /\ truthyString(text(least(named))) THEN text(least(named))
        ELSE IF role \in {"title", "heading"} /\ texts # {} THEN text(least(largest))
        ELSE IF role = "label" /\ topLeft # {} THEN text(least(topLeft))
        ELSE IF role = "content" /\ texts # {} THEN text(least(longest))
        ELSE null

\* the value of a key of a property bag, undefined when the bag lacks it
Shown(bag, key) == IF Has(bag, key) THEN bag[key] ELSE undefined

\* C23: the text of a role is the text of the first TEXT child with the
\* role in its name; failing that, for title the text of the TEXT child
\* with the largest font size and, among equals, the largest font weight;
\* for label the first TEXT child in the top 30% of the height or the left
\* 20% of the width; for content the longest text, the first among equals;
\* for subtitle, placeholder and hint nothing.
C23_TextByRole ==
    Emitted =>
        /\ Last.type = "Card" =>
              /\ Shown(Last.properties, "title") = TextRule(Top.node, "title")
              /\ Shown(Last.properties, "content") = TextRule(Top.node, "content")
              /\ Has(Last.properties, "subtitle") =>
                    Last.properties.subtitle = TextRule(Top.node, "subtitle")
              /\ ~Has(Last.properties, "subtitle") =>
                    ~truthyString(TextRule(Top.node, "subtitle"))
        /\ Last.type = "Input" =>
              /\ Shown(Last.properties, "label") = TextRule(Top.node, "label")
              /\ Shown(Last.properties, "placeholder")
                    = IF truthyString(TextRule(Top.node, "placeholder"))
                      THEN TextRule(Top.node, "placeholder")
                      ELSE TextRule(Top.node, "hint")

C23_Witness ==
    /\ Emitted
    /\ Last.type = "Card"
    /\ Len(Kids(Top.node)) = 3
    /\ Top.node.children[1].name = "Caption"
    /\ Top.node.children[2].name = "Note"
    /\ Top.node.children[3].name = "Hint Text"
    /\ Last.properties.title = "This is the card content area with description text."
    /\ Last.properties.content = "This is the card content area with description text."
    /\ ~Has(Last.properties, "subtitle")

\* C24: a key of the property bag is there only with a value: no label,
\* placeholder, title, subtitle or content is null or empty, and no options
\* are null or an empty list.
C24_AbsentNotNull ==
    \A i \in 1..Len(components) :
        LET bag == components[i].properties
        IN  /\ \A k \in {"label", "placeholder", "title", "subtitle", "content"} :
                    Has(bag, k) => bag[k] # null /\ bag[k] # ""
            /\ Has(bag, "options") => bag.options # nullArray /\ bag.options # <<>>

\* C25 as stated: no component has the type Radio.
C25_NeverRadio ==
    \A i \in 1..Len(components) : components[i].type # "Radio"

\* C25 as amended: a component has the type Radio exactly when the
\* componentId of its node is radio-button or radio-option; no name and no
\* structure gives Radio.
C25_RadioByIdOnly ==
    Emitted =>
        (Last.type = "Radio"
            <=> Get(Top.node, "componentId") \in {"radio-button", "radio-option"})

C25_Witness ==
    /\ Emitted
    /\ Top.node.name = "Search Input"
    /\ Get(Top.node, "componentId") = "radio-button"
    /\ Last.type = "Radio"

\* C27: a component emitted for a FRAME has the type of its catalog id or
\* of its first matching name rule: it is never Custom and never typed by
\* a structural test; and the card-like test decides the type of no
\* component, since a candidate that reaches it is no FRAME and no GROUP.
C27_FrameTypedByIdOrName ==
    Emitted =>
        /\ Top.node.type = "FRAME" =>
              /\ InCatalog(Top.node) \/ NameRule(Top.node.name) # "none"
              /\ Last.type # "Custom"
              /\ ~InCatalog(Top.node) => Last.type = NameRule(Top.node.name)
        /\ (~InCatalog(Top.node) /\ NameRule(Top.node.name) = "none") => ~CardLike(Top.node)

C27_Witness ==
    /\ Emitted
    /\ Top.node.type = "FRAME"
    /\ ~InCatalog(Top.node)
    /\ CardLike(Top.node)
    /\ ~ButtonLike(Top.node)
    /\ NameRule(Top.node.name) = "Card"
    /\ Last.type = "Card"

\* ---------------------------------------------------------------------
\* client: src/client/src/lib/codeGenerator.ts
\* ---------------------------------------------------------------------

\* the template function generateHtml returns the result of, by the type of
\* the component
generateHtml(comp) ==
    CASE comp.type = "Button"     -> "generateButtonTemplate"
      [] comp.type = "Input"      -> "generateInputTemplate"
      [] comp.type = "Card"       -> "generateCardTemplate"
      [] comp.type = "Select"     -> "generateSelectTemplate"
      [] comp.type = "Checkbox"   -> "generateCheckboxTemplate"
      [] comp.type = "DatePicker" -> "generateDatePickerTemplate"
      [] comp.type = "Tabs"       -> "generateTabsTemplate"
      [] comp.type = "Table"      -> "generateTableTemplate"
      [] OTHER                         -> "generateCustomComponentTemplate"

\* C26 as stated: every component whose supportStatus is supported or
\* partial gets a type-specific template from generateHtml, never the
\* custom-component placeholder.
C26_PlaceholderOnlyUnsupported ==
    \A i \in 1..Len(components) :
        components[i].supportStatus \in {"supported", "partial"}
            => generateHtml(components[i]) # "generateCustomComponentTemplate"

\* the handlers of the import step, as the statements below name them
ImportStepHandlers == {"handleImportClick", "handleFileInputChange", "handleDemoClick"}

\* the handlers that set isProcessing before their request
ProcessingHandlers == {"handleImportClick", "handleDemoClick", "handleConvertClick"}

\* the runs awaiting a response but the one at place i, oldest first
Others(c, i) ==
    [j \in 1..(Len(c.runs) - 1) |-> IF j < i THEN c.runs[j] ELSE c.runs[j + 1]]

\* this step is the end of the run at place i: the run is gone, no other
\* run has gone or come, and the others are as they were or, where the
\* step has replaced the step component, no longer mounted
EndsRun(i) ==
    /\ i \in DOMAIN client.runs
    /\ \/ client'.runs = Others(client, i)
       \/ client'.runs = [j \in DOMAIN Others(client, i) |->
                            [Others(client, i)[j] EXCEPT !.mounted = FALSE]]

\* the design the handler of a run of the import step receives
ReceivedBy(handler) ==
    CASE handler = "handleImportClick"     -> ImportedDesign
      [] handler = "handleFileInputChange" -> UploadedDesign
      [] handler = "handleDemoClick"       -> DemoDesign

\* this step is a click on Import with an empty URL
EmptyUrlClick ==
    /\ client.currentStep = "import"
    /\ client.uploadMethod = "link"
    /\ client.figmaUrl = ""
    /\ ~client.isLoading
    /\ client'.runs = client.runs
    /\ client'.toast # client.toast

C28_Step ==
    /\ (client.currentStep = "import" /\ client'.currentStep = "analyze") =>
            \E i \in DOMAIN client.runs :
                /\ client.runs[i].handler \in ImportStepHandlers
                /\ EndsRun(i)
                /\ client'.design = ReceivedBy(client.runs[i].handler)
    /\ \A i \in DOMAIN client.runs :
            (client.runs[i].handler \in ImportStepHandlers /\ EndsRun(i)) =>
                /\ \/ /\ client'.design = ReceivedBy(client.runs[i].handler)
                      /\ client'.currentStep = "analyze"
                   \/ /\ client'.design = client.design
                      /\ client'.currentStep = client.currentStep
                      /\ client.runs[i].mounted => client'.currentStep = "import"
                      /\ client'.toast \in {"Import Error", "Demo Error", "Error uploading file"}
                /\ client.runs[i].mounted => ~client'.isLoading
    /\ EmptyUrlClick =>
            /\ client'.currentStep = "import"
            /\ client'.design = client.design
            /\ ~client'.isLoading

\* C28: the step moves from import to analyze only in the run of a handler
\* of the import step that has stored the design it received; a run whose
\* request fails, and a click on Import with an empty URL, leave
\* currentStep and design as they are (currentStep at import while the
\* ImportStep of the run is shown), and every run leaves isLoading of its
\* ImportStep false.
C28_ImportAdvancesWithDesign == [][C28_Step]_vars

\* a failed URL import has left the step at import, and a demo load after
\* it has stored the demo design and moved to analyze
C28_Witness ==
    /\ client.currentStep = "analyze"
    /\ client.design = DemoDesign
    /\ client.toast = "Import Error"
    /\ client.runs = <<>>
    /\ ~client.isLoading

\* C29 as stated: isProcessing is true exactly while a request of a handler
\* that set it (URL import, demo load, convert) awaits its response.
C29_ProcessingWhileInFlight ==
    client.isProcessing =
        (\E i \in DOMAIN client.runs : client.runs[i].handler \in ProcessingHandlers)

\* no component-code fetch of the mounted ExportStep awaits its response
FetchesDone ==
    \A i \in DOMAIN client.runs :
        ~(client.runs[i].handler = "fetchComponentCode" /\ client.runs[i].mounted)

C30_Settled ==
    (/\ client.currentStep = "export"
     /\ FetchesDone
     /\ client.generatedCode # NoCode)
        => /\ client.generatedCode.componentId = client.selectedComponentId
           /\ client.generatedCode.fileKey = client.design.fileKey

C30_Step ==
    \A i \in DOMAIN client.runs :
        (/\ client.runs[i].handler = "fetchComponentCode"
         /\ EndsRun(i)
         /\ client.currentStep = "export"
         /\ client'.currentStep = "export"
         /\ client.runs[i].componentId # client.selectedComponentId
         /\ client.generatedCode.componentId = client.selectedComponentId)
            => client'.generatedCode = client.generatedCode

\* C30 as stated: in the export step, once no component-code fetch awaits
\* its response, generatedCode is the response to the fetch for the
\* selected component, and the response to a fetch for a component
\* selected earlier leaves generatedCode as it is.
C30_LatestSelectionWins == []C30_Settled /\ [][C30_Step]_vars

====
